---- MODULE Spec2Model ----
(***************************************************************************)
(* Model of the gridZ firmware (Firmware/gridz/gridZ.ino): a clocked       *)
(* 3-channel drum sequencer.  One pin-change interrupt handler captures    *)
(* the clock and divides it; the control loop re-evaluates the CV matrix,  *)
(* processes a step when one is due, expires gates and serves the serial   *)
(* protocol.                                                               *)
(*                                                                         *)
(* Time: micros() is a 32-bit microsecond counter.  The model counts time  *)
(* in units of UsPerUnit = 8 us, so the counter wraps at 2^32 / 8 = 2^29   *)
(* units and 1 ms is exactly 125 units; sums, differences and the signed   *)
(* comparison of the source are the same arithmetic on the quotients.      *)
(***************************************************************************)
EXTENDS Integers, Sequences, FiniteSets, TLC

\* ------------------------------------------------------------------ bounds
MaxEdges    == 4   \* rising clock edges the environment produces (Spec)
MaxTicks    == 4   \* clock advances the environment produces (Spec)
MaxCmds     == 2   \* serial lines the host sends (Spec)
MaxEnv      == 5   \* clock edges, clock advances and serial lines together (Spec)
MaxEdgesDiv == 40  \* rising clock edges in the divider specification
MaxEnvLive   == 2  \* rising clock edges and serial lines together (SpecLive)
MaxTicksLive == 3  \* clock advances (SpecLive)

\* -------------------------------------------------------- program constants
GRIDS_STEPS    == 32
GRIDS_CHANNELS == 3
ClkBit         == 3      \* PC3 = A3 = D17, the clock input's bit of PINC
SeedS          == 44257  \* 0xACE1
UsPerUnit      == 8
UnitsPerMs     == 1000 \div UsPerUnit
TimeMod        == 2^29   \* 2^32 us in units of 8 us
TimeHalf       == 2^28   \* 2^31 us: the sign bit of the int32_t difference

Chans == 0 .. (GRIDS_CHANNELS - 1)
Byte  == 0 .. 255

\* ------------------------------------------------------------- arithmetic
Max(a, b) == IF a >= b THEN a ELSE b
Min(a, b) == IF a <= b THEN a ELSE b
Abs(a)    == IF a < 0 THEN -a ELSE a

\* C integer division truncates toward zero.
TruncDiv(a, b) ==
  IF (a >= 0) = (b > 0) THEN Abs(a) \div Abs(b) ELSE -(Abs(a) \div Abs(b))

\* Variant: the lower bound left out.
constrainUpper(v, lo, hi) == IF v > hi THEN hi ELSE v

constrain(v, lo, hi) == IF v < lo THEN lo ELSE IF v > hi THEN hi ELSE v

\* Variant: the lower bound left out.
clamp8High(v) == IF v > 255 THEN 255 ELSE v

clamp8(v) == IF v < 0 THEN 0 ELSE IF v > 255 THEN 255 ELSE v

\* int vi = v.toInt(): the long is narrowed to the 16-bit int of the AVR.
ToInt16(v) == ((v + 32768) % 65536) - 32768

\* Bitwise exclusive or of two naturals (the ^ of the source).
XorF[a \in Nat, b \in Nat] ==
  IF a = 0 THEN b
  ELSE IF b = 0 THEN a
  ELSE (((a % 2) + (b % 2)) % 2) + 2 * XorF[a \div 2, b \div 2]

Xor16(a, b) == XorF[a % 65536, b % 65536]

\* Variant: the third shift-and-xor left out.
prngNextShort(s) ==
  LET s1 == Xor16(s, (s * 128) % 65536)
  IN  Xor16(s1, s1 \div 512)

\* static uint16_t s; s^=s<<7; s^=s>>9; s^=s<<8;  (the new state)
prngNext(s) ==
  LET s1 == Xor16(s, (s * 128) % 65536)
      s2 == Xor16(s1, s1 \div 512)
  IN  Xor16(s2, (s2 * 256) % 65536)

\* Variant: the high byte of the state returned in place of the low one.
prng8High(s) == prngNext(s) \div 256

\* return (uint8_t)s;
prng8(s) == prngNext(s) % 256

\* --------------------------------------------------------- pattern table
\* GRIDS_NODES comes from a generated header that is not part of the
\* sources; a table is described by the byte it returns for (cell, idx).
\* Table "const" holds one byte everywhere (the fallback table of the
\* source is "const" 0); table "ramp" varies with the cell and the index.
NodeByte(tbl, cell, idx) ==
  IF tbl.kind = "const" THEN tbl.p
  ELSE (tbl.p + 7 * cell + 3 * idx) % 256

\* Variant: the last row taken one too far (> in place of >=).
ReadCellOver(n, cell) == IF cell > n THEN n - 1 ELSE cell

\* if (cell >= GRIDS_NUM_CELLS) cell = GRIDS_NUM_CELLS - 1; cell is a uint16_t
ReadCell(n, cell) == IF cell >= n THEN n - 1 ELSE cell

\* uint16_t idx = chan * GRIDS_STEPS + step;
ReadIdx(chan, step) == (chan * GRIDS_STEPS + step) % 65536

readProb(tbl, n, cell, chan, step) == NodeByte(tbl, ReadCell(n, cell), ReadIdx(chan, step))

RECURSIVE ISqrtFrom(_, _)
ISqrtFrom(s, n) == IF (s + 1) * (s + 1) <= n THEN ISqrtFrom(s + 1, n) ELSE s

\* Variant: the smallest width whose square covers n, in place of the largest
\* whose square fits.
GridWCeil(n) ==
  LET s == ISqrtFrom(1, n) % 256 IN IF n = 25 THEN 5 ELSE IF s * s >= n THEN s ELSE s + 1

\* uint8_t arithmetic as in the source; n is GRIDS_NUM_CELLS.
GridW(n) == IF n = 25 THEN 5 ELSE ISqrtFrom(1, n) % 256
GridH(n) == Max(1, (n \div GridW(n)) % 256)

\* Variant: the position scaled by 255 in place of 256, so that 255 lands one
\* column and one row past the grid.
xyToCellOver(n, x, y) ==
  LET W    == GridW(n)
      H    == GridH(n)
      xi   == ((x * W) \div 255) % 256
      yi   == ((y * H) \div 255) % 256
      cell == (yi * W + xi) % 65536
  IN  IF cell >= n THEN n - 1 ELSE cell

xyToCell(n, x, y) ==
  LET W    == GridW(n)
      H    == GridH(n)
      xi   == ((x * W) \div 256) % 256
      yi   == ((y * H) \div 256) % 256
      cell == (yi * W + xi) % 65536
  IN  IF cell >= n THEN n - 1 ELSE cell

\* ----------------------------------------------------------- configuration
TGT_NONE        == 0
TGT_MAP_X       == 1
TGT_MAP_Y       == 2
TGT_DENS_BD     == 3
TGT_DENS_SD     == 4
TGT_DENS_HH     == 5
TGT_GLOBAL_DENS == 6
TGT_CHAOS       == 7
TGT_GATE_BD     == 8
TGT_GATE_SD     == 9
TGT_GATE_HH     == 10

NoSlot == [target |-> TGT_NONE, depth |-> 0]

CvInputOff == [enabled |-> FALSE, slot |-> [i \in 0 .. 2 |-> NoSlot]]

\* loadDefaults()
Defaults ==
  [baseMapX |-> 128, baseMapY |-> 128,
   baseDens |-> [i \in Chans |-> IF i = 0 THEN 160 ELSE IF i = 1 THEN 140 ELSE 120],
   baseChaos |-> 16,
   gateMs |-> [i \in Chans |-> 0],
   clockDiv |-> 1,
   in2 |-> CvInputOff,
   in3 |-> CvInputOff]

\* ------------------------------------------------------------- CV matrix
\* Variant: a shift in place of the scaling (c / 4).
cvNormShift(raw) ==
  LET v == TruncDiv(raw - 512, 4)
  IN  IF v < -127 THEN -127 ELSE IF v > 127 THEN 127 ELSE v

\* Variant: the scaling rounded to the nearest in place of truncated.
cvNormRound(raw) ==
  LET c == raw - 512
      v == TruncDiv(2 * c * 127 + (IF c < 0 THEN -512 ELSE 512), 1024)
  IN  IF v < -127 THEN -127 ELSE IF v > 127 THEN 127 ELSE v

cvNormCentered(raw) ==
  LET c == raw - 512
      v == TruncDiv(c * 127, 512)
  IN  IF v < -127 THEN -127 ELSE IF v > 127 THEN 127 ELSE v

BaseAcc(c) ==
  [mX |-> c.baseMapX, mY |-> c.baseMapY,
   d0 |-> c.baseDens[0], d1 |-> c.baseDens[1], d2 |-> c.baseDens[2],
   ch |-> c.baseChaos,
   g0 |-> c.gateMs[0], g1 |-> c.gateMs[1], g2 |-> c.gateMs[2]]

\* switch(t): the accumulator(s) of target t take delta; a target outside the
\* enum matches no case.
\* Variant: the case of MAP_X without its break, falling into MAP_Y.
AddDeltaFallThrough(acc, t, delta) ==
  IF      t = TGT_MAP_X       THEN [acc EXCEPT !.mX = @ + delta, !.mY = @ + delta]
  ELSE IF t = TGT_MAP_Y       THEN [acc EXCEPT !.mY = @ + delta]
  ELSE IF t = TGT_DENS_BD     THEN [acc EXCEPT !.d0 = @ + delta]
  ELSE IF t = TGT_DENS_SD     THEN [acc EXCEPT !.d1 = @ + delta]
  ELSE IF t = TGT_DENS_HH     THEN [acc EXCEPT !.d2 = @ + delta]
  ELSE IF t = TGT_GLOBAL_DENS THEN [acc EXCEPT !.d0 = @ + delta, !.d1 = @ + delta,
                                               !.d2 = @ + delta]
  ELSE IF t = TGT_CHAOS       THEN [acc EXCEPT !.ch = @ + delta]
  ELSE IF t = TGT_GATE_BD     THEN [acc EXCEPT !.g0 = @ + TruncDiv(delta, 8)]
  ELSE IF t = TGT_GATE_SD     THEN [acc EXCEPT !.g1 = @ + TruncDiv(delta, 8)]
  ELSE IF t = TGT_GATE_HH     THEN [acc EXCEPT !.g2 = @ + TruncDiv(delta, 8)]
  ELSE acc

AddDelta(acc, t, delta) ==
  IF      t = TGT_MAP_X       THEN [acc EXCEPT !.mX = @ + delta]
  ELSE IF t = TGT_MAP_Y       THEN [acc EXCEPT !.mY = @ + delta]
  ELSE IF t = TGT_DENS_BD     THEN [acc EXCEPT !.d0 = @ + delta]
  ELSE IF t = TGT_DENS_SD     THEN [acc EXCEPT !.d1 = @ + delta]
  ELSE IF t = TGT_DENS_HH     THEN [acc EXCEPT !.d2 = @ + delta]
  ELSE IF t = TGT_GLOBAL_DENS THEN [acc EXCEPT !.d0 = @ + delta, !.d1 = @ + delta,
                                               !.d2 = @ + delta]
  ELSE IF t = TGT_CHAOS       THEN [acc EXCEPT !.ch = @ + delta]
  ELSE IF t = TGT_GATE_BD     THEN [acc EXCEPT !.g0 = @ + TruncDiv(delta, 8)]
  ELSE IF t = TGT_GATE_SD     THEN [acc EXCEPT !.g1 = @ + TruncDiv(delta, 8)]
  ELSE IF t = TGT_GATE_HH     THEN [acc EXCEPT !.g2 = @ + TruncDiv(delta, 8)]
  ELSE acc

\* Variant: target ids taken one too high (an enum that starts at MAP_X), so
\* that target NONE lands on the first case.
ApplySlotShifted(acc, t, d, c) ==
  IF d = 0 THEN acc ELSE AddDelta(acc, t + 1, TruncDiv(c * d, 127))

\* Variant: every accumulator clamped after each route.
ApplySlotClamped(acc, t, d, c) ==
  LET a == IF t = TGT_NONE \/ d = 0 THEN acc
           ELSE AddDelta(acc, t, TruncDiv(c * d, 127))
      byte(v) == IF v < 0 THEN 0 ELSE IF v > 255 THEN 255 ELSE v
      len(v)  == IF v < 0 THEN 0 ELSE IF v > 50 THEN 50 ELSE v
  IN  [mX |-> byte(a.mX), mY |-> byte(a.mY),
       d0 |-> byte(a.d0), d1 |-> byte(a.d1), d2 |-> byte(a.d2), ch |-> byte(a.ch),
       g0 |-> len(a.g0), g1 |-> len(a.g1), g2 |-> len(a.g2)]

\* One route: if (t==TGT_NONE || d==0) continue; delta = c * d / 127; switch.
ApplySlot(acc, t, d, c) ==
  IF t = TGT_NONE \/ d = 0 THEN acc
  ELSE AddDelta(acc, t, TruncDiv(c * d, 127))

\* Variant: the enabled flag not looked at.
ApplyInputAlways(acc, inp, raw) ==
  LET c  == cvNormCentered(raw)
      a0 == ApplySlot(acc, inp.slot[0].target, inp.slot[0].depth, c)
      a1 == ApplySlot(a0, inp.slot[1].target, inp.slot[1].depth, c)
  IN  ApplySlot(a1, inp.slot[2].target, inp.slot[2].depth, c)

\* One input: nothing unless enabled; otherwise its three routes in order.
ApplyInput(acc, inp, raw) ==
  IF ~inp.enabled THEN acc
  ELSE LET c  == cvNormCentered(raw)
           a0 == ApplySlot(acc, inp.slot[0].target, inp.slot[0].depth, c)
           a1 == ApplySlot(a0, inp.slot[1].target, inp.slot[1].depth, c)
       IN  ApplySlot(a1, inp.slot[2].target, inp.slot[2].depth, c)

CvAcc(c, raw2, raw3) == ApplyInput(ApplyInput(BaseAcc(c), c.in2, raw2), c.in3, raw3)

\* Variant: the gate lengths written back without the constrain.
CvGateMsRaw(acc) ==
  [i \in Chans |-> (IF i = 0 THEN acc.g0 ELSE IF i = 1 THEN acc.g1 ELSE acc.g2) % 256]

\* The gate lengths are written back into cfg.gateMs (lines 263-265).
CvGateMs(acc) ==
  [i \in Chans |-> constrain(IF i = 0 THEN acc.g0 ELSE IF i = 1 THEN acc.g1 ELSE acc.g2,
                             0, 50)]

CvDens(acc) ==
  [i \in Chans |-> clamp8(IF i = 0 THEN acc.d0 ELSE IF i = 1 THEN acc.d1 ELSE acc.d2)]

\* ---------------------------------------------------------- fire decision
\* uint16_t base = (uint16_t)p * (uint16_t)dens[ch] / 255;
FireBase(p, d) == ((p * d) % 65536) \div 255

\* Variants of the fire decision: r <= base; r <= chaos.
FireDecisionLe(p, d, r, c) == (r <= FireBase(p, d)) \/ ((p = 0) /\ (r < c))

FireDecisionChaosLe(p, d, r, c) == (r < FireBase(p, d)) \/ ((p = 0) /\ (r <= c))

\* bool fire = (r < base) || ((p == 0) && (r < chaos));
FireDecision(p, d, r, c) == (r < FireBase(p, d)) \/ ((p = 0) /\ (r < c))

\* ------------------------------------------------------------------ gates
\* Variant: the 0 -> 1 ms coercion left out.
GateLenRaw(lenMs) == lenMs

\* if (lenMs==0) lenMs=1;
GateLen(lenMs) == IF lenMs = 0 THEN 1 ELSE lenMs

\* g.offAt_us = micros() + (uint32_t)lenMs*1000UL;
GateOffAt(t, lenMs) == (t + GateLen(lenMs) * UnitsPerMs) % TimeMod

\* Variant: the off-time set, the active mark forgotten.
gateOnUnmarked(g, t, lenMs) == [offAt_us |-> GateOffAt(t, lenMs), active |-> g.active]

\* Variant: a gate that is already active keeps its earlier off-time.
gateOnKeep(g, t, lenMs) ==
  IF g.active THEN g
  ELSE [offAt_us |-> (t + GateLen(lenMs) * UnitsPerMs) % TimeMod, active |-> TRUE]

\* gateOn(): the GateState it leaves, whatever the one it finds.
gateOn(g, t, lenMs) == [offAt_us |-> GateOffAt(t, lenMs), active |-> TRUE]

\* Variant: the two readings compared as unsigned numbers (now >= offAt).
TimeReachedUnsigned(t, offAt) == t >= offAt

\* Variant: > 0 in place of >= 0.
TimeReachedStrict(t, offAt) ==
  (((t - offAt) % (2^29)) < 2^28) /\ (t # offAt)

\* (int32_t)(now - g.offAt_us) >= 0
TimeReached(t, offAt) == ((t - offAt) % TimeMod) < TimeHalf

\* ------------------------------------------------------------------ clock
ClkHigh(pinc) == ((pinc \div (2^ClkBit)) % 2) = 1

\* Variant: == in place of >=.
DivReachedEq(d, n) == d = Max(1, n)

\* Variant: > in place of >=.
DivReachedStrict(d, n) == d > (IF n >= 1 THEN n ELSE 1)

\* ++divCount >= max<uint8_t>(1, cfg.clockDiv)
DivReached(d, n) == d >= Max(1, n)

\* if (!prevHigh && nowHigh)
RisingEdge(prev, now) == ~ClkHigh(prev) /\ ClkHigh(now)

\* --------------------------------------------------------- serial protocol
\* One key=value pair of SET; vi is the int that v.toInt() was narrowed to.
SetKV(c, k, vi) ==
  IF      k = "mapX"     THEN [c EXCEPT !.baseMapX = constrain(vi, 0, 255)]
  ELSE IF k = "mapY"     THEN [c EXCEPT !.baseMapY = constrain(vi, 0, 255)]
  ELSE IF k = "dens0"    THEN [c EXCEPT !.baseDens[0] = constrain(vi, 0, 255)]
  ELSE IF k = "dens1"    THEN [c EXCEPT !.baseDens[1] = constrain(vi, 0, 255)]
  ELSE IF k = "dens2"    THEN [c EXCEPT !.baseDens[2] = constrain(vi, 0, 255)]
  ELSE IF k = "chaos"    THEN [c EXCEPT !.baseChaos = constrain(vi, 0, 255)]
  ELSE IF k = "gate0"    THEN [c EXCEPT !.gateMs[0] = constrain(vi, 0, 50)]
  ELSE IF k = "gate1"    THEN [c EXCEPT !.gateMs[1] = constrain(vi, 0, 50)]
  ELSE IF k = "gate2"    THEN [c EXCEPT !.gateMs[2] = constrain(vi, 0, 50)]
  ELSE IF k = "clockDiv" THEN [c EXCEPT !.clockDiv = Max(1, Min(8, vi))]
  ELSE IF k = "in2en"    THEN [c EXCEPT !.in2.enabled = (vi # 0)]
  ELSE IF k = "in3en"    THEN [c EXCEPT !.in3.enabled = (vi # 0)]
  ELSE IF k = "in2t0"    THEN [c EXCEPT !.in2.slot[0].target = constrain(vi, 0, 10)]
  ELSE IF k = "in2t1"    THEN [c EXCEPT !.in2.slot[1].target = constrain(vi, 0, 10)]
  ELSE IF k = "in2t2"    THEN [c EXCEPT !.in2.slot[2].target = constrain(vi, 0, 10)]
  ELSE IF k = "in2d0"    THEN [c EXCEPT !.in2.slot[0].depth = constrain(vi, -127, 127)]
  ELSE IF k = "in2d1"    THEN [c EXCEPT !.in2.slot[1].depth = constrain(vi, -127, 127)]
  ELSE IF k = "in2d2"    THEN [c EXCEPT !.in2.slot[2].depth = constrain(vi, -127, 127)]
  ELSE IF k = "in3t0"    THEN [c EXCEPT !.in3.slot[0].target = constrain(vi, 0, 10)]
  ELSE IF k = "in3t1"    THEN [c EXCEPT !.in3.slot[1].target = constrain(vi, 0, 10)]
  ELSE IF k = "in3t2"    THEN [c EXCEPT !.in3.slot[2].target = constrain(vi, 0, 10)]
  ELSE IF k = "in3d0"    THEN [c EXCEPT !.in3.slot[0].depth = constrain(vi, -127, 127)]
  ELSE IF k = "in3d1"    THEN [c EXCEPT !.in3.slot[1].depth = constrain(vi, -127, 127)]
  ELSE IF k = "in3d2"    THEN [c EXCEPT !.in3.slot[2].depth = constrain(vi, -127, 127)]
  ELSE c

\* The keys parseSetKV knows.
KnownKeys ==
  {"mapX", "mapY", "dens0", "dens1", "dens2", "chaos", "gate0", "gate1", "gate2",
   "clockDiv", "in2en", "in3en",
   "in2t0", "in2t1", "in2t2", "in2d0", "in2d1", "in2d2",
   "in3t0", "in3t1", "in3t2", "in3d0", "in3d1", "in3d2"}

\* Variant: the line given up at the first key that is not known.
RECURSIVE parseSetKVStop(_, _)
parseSetKVStop(c, kvs) ==
  IF kvs = << >> THEN c
  ELSE IF Head(kvs).k \notin KnownKeys THEN c
  ELSE parseSetKVStop(SetKV(c, Head(kvs).k, ToInt16(Head(kvs).v)), Tail(kvs))

\* parseSetKV: the pairs of the line, left to right.
RECURSIVE parseSetKV(_, _)
parseSetKV(c, kvs) ==
  IF kvs = << >> THEN c
  ELSE parseSetKV(SetKV(c, Head(kvs).k, ToInt16(Head(kvs).v)), Tail(kvs))

\* ----------------------------------------------------------------- EEPROM
\* EEPROM.put(0, cfg) and EEPROM.get(0, cfg) copy the bytes of struct Config:
\* ten uint8_t, then for each input a bool and three (uint8_t, int8_t) pairs.
CfgBytes == 24

U8(v) == v % 256                      \* the byte of a uint8_t or int8_t

\* Variant: the depth byte read back as unsigned.
S8Unsigned(b) == b

S8(b) == IF b >= 128 THEN b - 256 ELSE b   \* the int8_t of a byte

PutInput(inp) ==
  << IF inp.enabled THEN 1 ELSE 0,
     U8(inp.slot[0].target), U8(inp.slot[0].depth),
     U8(inp.slot[1].target), U8(inp.slot[1].depth),
     U8(inp.slot[2].target), U8(inp.slot[2].depth) >>

PutCfg(c) ==
  << U8(c.baseMapX), U8(c.baseMapY),
     U8(c.baseDens[0]), U8(c.baseDens[1]), U8(c.baseDens[2]),
     U8(c.baseChaos),
     U8(c.gateMs[0]), U8(c.gateMs[1]), U8(c.gateMs[2]),
     U8(c.clockDiv) >> \o PutInput(c.in2) \o PutInput(c.in3)

\* The input whose seven bytes start at offset o; a bool byte other than 0
\* reads as true.
GetInput(b, o) ==
  [enabled |-> b[o + 1] # 0,
   slot |-> [i \in 0 .. 2 |-> [target |-> b[o + 2 + 2 * i],
                                depth |-> S8(b[o + 3 + 2 * i])]]]

GetCfg(b) ==
  [baseMapX |-> b[1], baseMapY |-> b[2],
   baseDens |-> [i \in Chans |-> b[3 + i]],
   baseChaos |-> b[6],
   gateMs |-> [i \in Chans |-> b[7 + i]],
   clockDiv |-> b[10],
   in2 |-> GetInput(b, 10),
   in3 |-> GetInput(b, 17)]

\* ------------------------------------------------------------ step counter
\* volatile uint32_t stepCount, held as two 16-bit halves.
Half == 65536

U32(hi, lo) == [hi |-> hi, lo |-> lo]

\* Variant: the position taken from the counter without the modulo.
StepIndexRaw(sc) == sc.lo

\* uint8_t step = stepCount % GRIDS_STEPS;
StepIndex(sc) == ((sc.hi % GRIDS_STEPS) * (Half % GRIDS_STEPS) + sc.lo) % GRIDS_STEPS

\* Variant: a counter that stops at its largest value in place of wrapping.
IncU32Sat(sc) ==
  IF sc.lo + 1 < Half THEN [sc EXCEPT !.lo = @ + 1]
  ELSE IF sc.hi + 1 < Half THEN U32(sc.hi + 1, 0)
  ELSE sc

\* stepCount++ on 32 bits: the carry into the high half, and the wrap to 0.
IncU32(sc) ==
  IF sc.lo + 1 < Half THEN [sc EXCEPT !.lo = @ + 1]
  ELSE U32((sc.hi + 1) % Half, 0)

\* Variant: the flag left as it is when the step is taken.
FlagKept(flag) == flag

\* loop(), line 405: clockEdge=false;
FlagTaken(flag) == FALSE

\* -------------------------------------------------------------------- state
VARIABLES
  cfg,          \* struct Config cfg
  eeprom,       \* the CfgBytes bytes at EEPROM address 0
  pcint1_prev,  \* PINC as last seen by the interrupt handler
  clockEdge,    \* the step-due flag
  stepCount,    \* uint32_t, as its two 16-bit halves [hi, lo]
  divCount,
  mapX, mapY, dens, chaos,   \* runtime (modulated) values
  gates,        \* GateState gates[3]: offAt_us (in units), active
  pins,         \* level of the output lines D9, D10, D11
  prng_s,       \* static uint16_t s of prng8
  micros,       \* the hardware microsecond counter (in units)
  now,          \* loop()'s local: the time reading of the last gate scan
  table,        \* GRIDS_NODES (build-time data)
  numCells,     \* GRIDS_NUM_CELLS (build-time data)
  pc,           \* position of the control loop
  ch,           \* processStep's loop index
  \* history of the run, read by the properties only
  nRising,      \* rising edges seen by the interrupt handler
  nRaised,      \* times the handler set clockEdge
  nProcessed,   \* processStep calls begun
  visited,      \* channels the current processStep has gone through
  drawn,        \* channels the current processStep drew a byte for
  req,          \* channels the current processStep called gateOn for
  lastFire,     \* per channel: time and length of the last gateOn, p, r of the decision
  riseAt,       \* per channel: time at which the line last went low -> high
  ticks,        \* clock advances so far
  nCmds,        \* serial lines received so far
  \* the levels at the CV jacks, and the record of the serial traffic (read
  \* by the properties only)
  adc,          \* what analogRead returns for A4 (in2) and A5 (in3)
  lastLine,     \* the serial line handled last
  reply,        \* what was printed in answer to it
  savedCfg,     \* cfg at the moment of the last SAVE
  tableRead,    \* the last direct call of readProb: its arguments and result
  prngCalls     \* direct calls of prng8 so far

progVars == <<cfg, eeprom, pcint1_prev, clockEdge, stepCount, divCount, mapX, mapY,
              dens, chaos, gates, pins, prng_s, micros, now, table, numCells, pc, ch>>
histVars == <<nRising, nRaised, nProcessed, visited, drawn, req, lastFire, riseAt,
              ticks, nCmds>>
logVars  == <<adc, lastLine, reply, savedCfg, tableRead, prngCalls>>
vars == <<progVars, histVars, logVars>>

\* ------------------------------------------------------ environment's inputs
PincValues == {0, 8}                \* PINC with the clock low, high
CvSamples  == {0, 512, 1023}        \* analogRead results
TickSteps  == {UnitsPerMs}
Tables     == {[kind |-> "const", p |-> 255], [kind |-> "const", p |-> 0]}

\* An erased EEPROM reads 0xFF in every byte; BlankRecord is what LOAD makes
\* of it.
ErasedEeprom == [i \in 1 .. CfgBytes |-> 255]

BlankSlot   == [target |-> 255, depth |-> -1]
BlankInput  == [enabled |-> TRUE, slot |-> [i \in 0 .. 2 |-> BlankSlot]]
BlankRecord ==
  [baseMapX |-> 255, baseMapY |-> 255, baseDens |-> [i \in Chans |-> 255],
   baseChaos |-> 255, gateMs |-> [i \in Chans |-> 255], clockDiv |-> 255,
   in2 |-> BlankInput, in3 |-> BlankInput]

SetLine(k, v) == [cmd |-> "SET", kvs |-> << [k |-> k, v |-> v] >>]

\* Lines the host sends in the system specification.
Lines ==
  {[cmd |-> "GET"], [cmd |-> "SAVE"], [cmd |-> "LOAD"],
   SetLine("gate0", 2), SetLine("clockDiv", 2), SetLine("in2en", 1)}

\* ------------------------------------------------------------ initial state
NeverFired == [at |-> 0, len |-> 0, n |-> 0]

NoLine   == [cmd |-> "none"]
NeverSaved == [saved |-> FALSE]
NoSample == [in2 |-> 512, in3 |-> 512]
NoRead   == [made |-> FALSE]

InitLog ==
  /\ adc = NoSample
  /\ lastLine = NoLine
  /\ reply = "none"
  /\ savedCfg = NeverSaved /\ tableRead = NoRead /\ prngCalls = 0

InitHistory ==
  /\ nRising = 0 /\ nRaised = 0 /\ nProcessed = 0
  /\ visited = {} /\ drawn = {} /\ req = {}
  /\ lastFire = [i \in Chans |-> NeverFired]
  /\ riseAt = [i \in Chans |-> 0]
  /\ ticks = 0 /\ nCmds = 0
  /\ InitLog

\* setup(): loadDefaults, setupClockPCINT, applyNonBlockingPinSetup; and the
\* initialisers of the globals.
InitProgram ==
  /\ cfg = Defaults
  /\ clockEdge = FALSE /\ stepCount = U32(0, 0) /\ divCount = 0
  /\ mapX = 128 /\ mapY = 128
  /\ dens = [i \in Chans |-> IF i = 0 THEN 160 ELSE IF i = 1 THEN 140 ELSE 120]
  /\ chaos = 16
  /\ gates = [i \in Chans |-> [offAt_us |-> 0, active |-> FALSE]]
  /\ pins = [i \in Chans |-> FALSE]
  /\ prng_s = SeedS
  /\ now = 0
  /\ pc = "cv" /\ ch = 0

Init ==
  /\ InitProgram
  /\ InitHistory
  /\ eeprom = ErasedEeprom
  /\ pcint1_prev = 0
  /\ micros = 0
  /\ table \in Tables
  /\ numCells = 25

\* ----------------------------------------------------- interrupt handler
\* What happened on the clock line between two readings of PINC (bit 3 is
\* worth 8): the history counts rising edges by this, not by the handler's
\* own test.
LineRose(before, after) == ((before \div 8) % 2 = 0) /\ ((after \div 8) % 2 = 1)

\* ISR(PCINT1_vect) with PINC reading v.  The handler runs with interrupts
\* masked, so it is one step.
ISR(v) ==
  LET d == (divCount + 1) % 256 IN
  /\ IF RisingEdge(pcint1_prev, v)
       THEN IF DivReached(d, cfg.clockDiv)
              THEN /\ divCount' = 0
                   /\ clockEdge' = TRUE
                   /\ nRaised' = nRaised + 1
              ELSE /\ divCount' = d
                   /\ UNCHANGED <<clockEdge, nRaised>>
       ELSE UNCHANGED <<divCount, clockEdge, nRaised>>
  /\ pcint1_prev' = v
  /\ nRising' = IF LineRose(pcint1_prev, v) THEN nRising + 1 ELSE nRising
  /\ UNCHANGED <<cfg, eeprom, stepCount, mapX, mapY, dens, chaos, gates, pins, prng_s,
                 micros, now, table, numCells, pc, ch>>
  /\ UNCHANGED <<nProcessed, visited, drawn, req, lastFire, riseAt, ticks, nCmds>>
  /\ UNCHANGED logVars

\* ------------------------------------------------------------ control loop
\* readAndApplyCvMatrix() on configuration c with analog readings raw2, raw3
\* (an input that is not enabled is not read, and its reading not used): the
\* published runtime values and the configuration it leaves.
RunCv(c, raw2, raw3) ==
  LET acc == CvAcc(c, raw2, raw3) IN
  [mapX |-> clamp8(acc.mX), mapY |-> clamp8(acc.mY), dens |-> CvDens(acc),
   chaos |-> clamp8(acc.ch), cfg |-> [c EXCEPT !.gateMs = CvGateMs(acc)]]

Publish(out) ==
  /\ mapX' = out.mapX /\ mapY' = out.mapY /\ dens' = out.dens /\ chaos' = out.chaos
  /\ cfg' = out.cfg

\* loop(), line 401
LoopReadCv ==
  /\ pc = "cv"
  /\ Publish(RunCv(cfg, adc.in2, adc.in3))
  /\ pc' = "test"
  /\ UNCHANGED <<eeprom, pcint1_prev, clockEdge, stepCount, divCount, gates, pins,
                 prng_s, micros, now, table, numCells, ch>>
  /\ UNCHANGED histVars
  /\ UNCHANGED logVars

\* Variant: the step runs whether or not the flag is set.
StepDueAlways(flag) == TRUE

\* if (clockEdge)
StepDue(flag) == flag

\* loop(), line 404: the test of the flag, outside the masked section
LoopTest ==
  /\ pc = "test"
  /\ pc' = IF StepDue(clockEdge) THEN "clear" ELSE "scan"
  /\ UNCHANGED <<cfg, eeprom, pcint1_prev, clockEdge, stepCount, divCount, mapX, mapY,
                 dens, chaos, gates, pins, prng_s, micros, now, table, numCells, ch>>
  /\ UNCHANGED histVars
  /\ UNCHANGED logVars

\* loop(), lines 405-406: noInterrupts(); clockEdge=false; interrupts(); and the
\* call of processStep(), which starts with channel 0.
LoopClear ==
  /\ pc = "clear"
  /\ clockEdge' = FlagTaken(clockEdge)
  /\ pc' = "step" /\ ch' = 0
  /\ nProcessed' = nProcessed + 1
  /\ visited' = {} /\ drawn' = {} /\ req' = {}
  /\ UNCHANGED <<cfg, eeprom, pcint1_prev, stepCount, divCount, mapX, mapY, dens, chaos,
                 gates, pins, prng_s, micros, now, table, numCells>>
  /\ UNCHANGED <<nRising, nRaised, lastFire, riseAt, ticks, nCmds>>
  /\ UNCHANGED logVars

\* Variant: the two inputs swapped.
MutedSwapped(c, k) == (k = 0 /\ c.in3.enabled) \/ (k = 1 /\ c.in2.enabled)

\* if ((ch==0 && cfg.in2.enabled) || (ch==1 && cfg.in3.enabled)) continue;
Muted(c, k) == (k = 0 /\ c.in2.enabled) \/ (k = 1 /\ c.in3.enabled)

\* Variant: the loop left after the first pass (break in place of continue).
AfterChannelBreak(k) == [pc |-> "inc", ch |-> 0]

\* for (uint8_t ch=0; ch<3; ++ch): where the loop goes after channel k
AfterChannel(k) ==
  IF k + 1 < GRIDS_CHANNELS THEN [pc |-> "step", ch |-> k + 1]
  ELSE [pc |-> "inc", ch |-> 0]

\* processStep(), one pass of the for loop (lines 276-288), gateOn included.
StepChannel ==
  LET cell == xyToCell(numCells, mapX, mapY)
      step == StepIndex(stepCount)
      p    == readProb(table, numCells, cell, ch, step)
      s1   == prngNext(prng_s)
      r    == prng8(prng_s)
      fire == FireDecision(p, dens[ch], r, chaos)
      nxt  == AfterChannel(ch)
  IN
  /\ pc = "step"
  /\ visited' = visited \cup {ch}
  /\ IF Muted(cfg, ch)
       THEN UNCHANGED <<prng_s, gates, pins, drawn, req, lastFire, riseAt>>
       ELSE /\ prng_s' = s1
            /\ drawn' = drawn \cup {ch}
            /\ IF fire
                 THEN /\ pins' = [pins EXCEPT ![ch] = TRUE]
                      /\ gates' = [gates EXCEPT ![ch] =
                                     gateOn(gates[ch], micros, cfg.gateMs[ch])]
                      /\ req' = req \cup {ch}
                      /\ lastFire' = [lastFire EXCEPT ![ch] =
                                        [at |-> micros, len |-> cfg.gateMs[ch],
                                         n |-> @.n + 1]]
                      /\ riseAt' = IF pins[ch] THEN riseAt
                                   ELSE [riseAt EXCEPT ![ch] = micros]
                 ELSE UNCHANGED <<gates, pins, req, lastFire, riseAt>>
  /\ pc' = nxt.pc /\ ch' = nxt.ch
  /\ UNCHANGED <<cfg, eeprom, pcint1_prev, clockEdge, stepCount, divCount, mapX, mapY,
                 dens, chaos, micros, now, table, numCells>>
  /\ UNCHANGED <<nRising, nRaised, nProcessed, ticks, nCmds>>
  /\ UNCHANGED logVars

\* processStep(), line 290: stepCount++
StepAdvance ==
  /\ pc = "inc"
  /\ stepCount' = IncU32(stepCount)
  /\ pc' = "scan"
  /\ UNCHANGED <<cfg, eeprom, pcint1_prev, clockEdge, divCount, mapX, mapY, dens, chaos,
                 gates, pins, prng_s, micros, now, table, numCells, ch>>
  /\ UNCHANGED histVars
  /\ UNCHANGED logVars

\* Variant: expiry one reading late (> 0 in place of >= 0).
ExpiredLate(g, t) == g.active /\ TimeReachedStrict(t, g.offAt_us)

\* if (g.active && (int32_t)(now - g.offAt_us) >= 0)
Expired(g, t) == g.active /\ TimeReached(t, g.offAt_us)

\* loop(), lines 410-417: one time reading, then the scan of the three gates
LoopGateScan ==
  /\ pc = "scan"
  /\ now' = micros
  /\ gates' = [i \in Chans |-> IF Expired(gates[i], micros)
                                 THEN [gates[i] EXCEPT !.active = FALSE]
                                 ELSE gates[i]]
  /\ pins' = [i \in Chans |-> IF Expired(gates[i], micros) THEN FALSE ELSE pins[i]]
  /\ pc' = "serial"
  /\ UNCHANGED <<cfg, eeprom, pcint1_prev, clockEdge, stepCount, divCount, mapX, mapY,
                 dens, chaos, prng_s, micros, table, numCells, ch>>
  /\ UNCHANGED histVars
  /\ UNCHANGED logVars

\* handleSerial(), line 385: nothing available
HandleSerialIdle ==
  /\ pc = "serial"
  /\ pc' = "cv"
  /\ UNCHANGED <<cfg, eeprom, pcint1_prev, clockEdge, stepCount, divCount, mapX, mapY,
                 dens, chaos, gates, pins, prng_s, micros, now, table, numCells, ch>>
  /\ UNCHANGED histVars
  /\ UNCHANGED logVars

\* handleSerial() with one received line.  GET prints the state, SAVE, LOAD
\* and SET print their acknowledgement, any other line prints nothing.
HandleSerial(line) ==
  /\ pc = "serial"
  /\ nCmds' = nCmds + 1
  /\ lastLine' = line
  /\ pc' = "cv"
  /\ IF line.cmd = "GET"
       THEN /\ Publish(RunCv(cfg, adc.in2, adc.in3))
            /\ reply' = "state"
            /\ UNCHANGED <<eeprom, savedCfg>>
     ELSE IF line.cmd = "SAVE"
       THEN /\ eeprom' = PutCfg(cfg)
            /\ savedCfg' = cfg
            /\ reply' = "saved"
            /\ UNCHANGED <<cfg, mapX, mapY, dens, chaos>>
     ELSE IF line.cmd = "LOAD"
       THEN /\ cfg' = GetCfg(eeprom)
            /\ reply' = "loaded"
            /\ UNCHANGED <<eeprom, mapX, mapY, dens, chaos, savedCfg>>
     ELSE IF line.cmd = "SET"
       THEN /\ Publish(RunCv(parseSetKV(cfg, line.kvs), adc.in2, adc.in3))
            /\ reply' = "ok"
            /\ UNCHANGED <<eeprom, savedCfg>>
     ELSE /\ reply' = "none"
          /\ UNCHANGED <<cfg, eeprom, mapX, mapY, dens, chaos, savedCfg>>
  /\ UNCHANGED <<adc, tableRead, prngCalls>>
  /\ UNCHANGED <<pcint1_prev, clockEdge, stepCount, divCount, gates, pins, prng_s,
                 micros, now, table, numCells, ch>>
  /\ UNCHANGED <<nRising, nRaised, nProcessed, visited, drawn, req, lastFire, riseAt,
                 ticks>>

\* The hardware counter behind micros() advances by dt.
Advance(dt) ==
  /\ micros' = (micros + dt) % TimeMod
  /\ ticks' = ticks + 1
  /\ UNCHANGED <<cfg, eeprom, pcint1_prev, clockEdge, stepCount, divCount, mapX, mapY,
                 dens, chaos, gates, pins, prng_s, now, table, numCells, pc, ch>>
  /\ UNCHANGED <<nRising, nRaised, nProcessed, visited, drawn, req, lastFire, riseAt,
                 nCmds>>
  /\ UNCHANGED logVars

\* -------------------------------------------------- the system specification
\* The environment's budget: what it has done so far stays within the bounds.
EnvLeft == nRising + ticks + nCmds < MaxEnv

PCINT1 ==
  \E v \in PincValues :
    /\ LineRose(pcint1_prev, v) => (nRising < MaxEdges /\ EnvLeft)
    /\ ISR(v)

\* The counter is read in gateOn and at the gate scan only, so it is enough to
\* let it advance right before those.
Tick ==
  /\ ticks < MaxTicks /\ EnvLeft
  /\ pc \in {"step", "scan"}
  /\ \E dt \in TickSteps : Advance(dt)

SerialLine == nCmds < MaxCmds /\ EnvLeft /\ \E line \in Lines : HandleSerial(line)

Next ==
  \/ PCINT1
  \/ Tick
  \/ LoopReadCv
  \/ LoopTest
  \/ LoopClear
  \/ StepChannel
  \/ StepAdvance
  \/ LoopGateScan
  \/ HandleSerialIdle
  \/ SerialLine

Spec == Init /\ [][Next]_vars

\* ------------------------------------------------- the divider specification
\* The interrupt handler alone, under a division factor that stays constant.
PincValuesDiv == {0, 8, 16, 24}     \* clock (bit 3) and A4 (bit 4) in each combination
DivFactors    == 1 .. 8             \* what SET clockDiv can store

\* The state after setup() and, for a factor other than the default 1, one
\* SET clockDiv line, before the first clock edge.
InitDiv ==
  /\ nRising = 0 /\ nRaised = 0 /\ nProcessed = 0
  /\ visited = {} /\ drawn = {} /\ req = {}
  /\ lastFire = [i \in Chans |-> NeverFired]
  /\ riseAt = [i \in Chans |-> 0]
  /\ ticks = 0
  /\ \E n \in DivFactors :
       /\ cfg = [Defaults EXCEPT !.clockDiv = n]
       /\ nCmds = IF n = 1 THEN 0 ELSE 1
       /\ lastLine = IF n = 1 THEN NoLine ELSE SetLine("clockDiv", n)
       /\ reply = IF n = 1 THEN "none" ELSE "ok"
  /\ adc = NoSample /\ savedCfg = NeverSaved /\ tableRead = NoRead /\ prngCalls = 0
  /\ eeprom = ErasedEeprom
  /\ clockEdge = FALSE /\ stepCount = U32(0, 0) /\ divCount = 0
  /\ mapX = 128 /\ mapY = 128
  /\ dens = [i \in Chans |-> IF i = 0 THEN 160 ELSE IF i = 1 THEN 140 ELSE 120]
  /\ chaos = 16
  /\ gates = [i \in Chans |-> [offAt_us |-> 0, active |-> FALSE]]
  /\ pins = [i \in Chans |-> FALSE]
  /\ prng_s = SeedS
  /\ now = 0
  /\ pc = "cv" /\ ch = 0
  /\ pcint1_prev \in PincValuesDiv
  /\ micros = 0
  /\ table \in Tables
  /\ numCells = 25

PCINT1Div ==
  \E v \in PincValuesDiv :
    /\ LineRose(pcint1_prev, v) => nRising < MaxEdgesDiv
    /\ ISR(v)

NextDiv == PCINT1Div

SpecDiv == InitDiv /\ [][NextDiv]_vars

\* ------------------------------------------------------------------ claims
\* C1: under a constant division factor N >= 1, with the division counter
\* starting at 0, step-due has been raised exactly once per N rising edges of
\* the clock line (so on edges N, 2N, 3N, ...), the counter is back at 0 after
\* each raise, and handler runs without a rising edge raise nothing; for
\* N = 4, 40 rising edges raise it exactly 10 times.
DivisionExact ==
  LET N == cfg.clockDiv IN
  /\ N >= 1
  /\ nRaised = nRising \div N
  /\ divCount = nRising % N
  /\ (N = 4 /\ nRising = 40) => nRaised = 10

DivisionWitness == cfg.clockDiv = 4 /\ nRising = 40 /\ nRaised = 10 /\ divCount = 0

\* C2: no step-due event is lost: the raises not yet taken up by a
\* processStep call are at most the one the flag can hold.
NoLostEvent == nRaised <= nProcessed + (IF clockEdge THEN 1 ELSE 0)

\* C3: no step-due event is double-counted: processStep has been called at
\* most as often as step-due was raised (a raise still held by the flag not
\* counted among the calls).
NoDoubleCount == nProcessed + (IF clockEdge THEN 1 ELSE 0) <= nRaised

NoDoubleCountWitness == nProcessed = 2 /\ nRaised = 2 /\ ~clockEdge

\* C4: processStep runs to completion before the next one begins: the calls
\* begun are the steps completed plus the one in progress, the one in
\* progress has gone through channels 0 .. ch-1 in order and through all
\* three before the step counter advances, and a handler run during
\* processStep changes nothing of it.
InStep == pc \in {"step", "inc"}

StepOrderingState ==
  /\ nProcessed = stepCount.hi * Half + stepCount.lo + (IF InStep THEN 1 ELSE 0)
  /\ (pc = "step") => (ch \in Chans /\ visited = 0 .. (ch - 1))
  /\ (pc = "inc") => (visited = Chans)

StepOrderingEdge ==
  (InStep /\ pcint1_prev' # pcint1_prev) =>
     UNCHANGED <<pc, ch, visited, drawn, req, stepCount, nProcessed, prng_s, gates, pins>>

StepOrdering == [] StepOrderingState /\ [][StepOrderingEdge]_vars

StepOrderingWitness ==
  pc = "inc" /\ clockEdge /\ nRaised = 2 /\ nProcessed = 1 /\ visited = Chans

\* C7: in a step processed while input 2 is enabled, channel 0 issues no
\* gate-on request, likewise channel 1 while input 3 is enabled; channel 2 is
\* evaluated (a byte is drawn for it) in every step.
Muting ==
  InStep =>
    /\ cfg.in2.enabled => (0 \notin req /\ 0 \notin drawn)
    /\ cfg.in3.enabled => (1 \notin req /\ 1 \notin drawn)
    /\ (pc = "inc") => (2 \in drawn)

MutingWitness ==
  pc = "inc" /\ cfg.in2.enabled /\ cfg.in3.enabled /\ drawn = {2} /\ req = {2}

\* Time from reading a to reading b of the wrapping counter.
Elapsed(a, b) == (b - a) % TimeMod

\* The length a gate was fired with, as a time: max(L, 1) ms.
FiredFor(i) ==
  (IF lastFire[i].len >= 1 THEN lastFire[i].len ELSE 1) * UnitsPerMs

\* C8: a channel's line is not set low before max(L,1) ms have passed since
\* it was (last) fired with length L; a length of 0 gives a 1 ms pulse.
GateMinStep ==
  \A i \in Chans :
    (pins[i] /\ ~pins'[i]) => Elapsed(lastFire[i].at, micros') >= FiredFor(i)

GateMaxContinuous ==
  (pc = "serial") =>
     \A i \in Chans : pins[i] => Elapsed(riseAt[i], now) < FiredFor(i)

\* C9 as amended: after every gate scan, a line that is still high was fired
\* last less than max(L,1) ms before the scan's time reading, with L in 0..50
\* the length of that last fire.
GateMaxSinceLastFire ==
  (pc = "serial") =>
     \A i \in Chans :
        pins[i] => (lastFire[i].len \in 0 .. 50 /\ Elapsed(lastFire[i].at, now) < FiredFor(i))

GateMaxWitness ==
  /\ pc = "serial" /\ pins[0] /\ gates[0].active
  /\ lastFire[0].n >= 2 /\ riseAt[0] # lastFire[0].at

\* ------------------------------------------- the fire-decision specification
\* One processStep from its first channel, for a table that holds p
\* everywhere, equal densities d, chaos c and a generator state whose next
\* byte is r: the 256 states 256 .. 511 give each r in 0 .. 255 once.  Every
\* non-zero state is on the generator's single cycle of 65535 states, so
\* after StepsBefore = 65535 steps (each drawing one to three bytes,
\* depending on the mutes) the generator can be in any of them.
StepsBefore == 65535

FireProbs == {0, 1, 2, 127, 128, 254, 255}
FireDens  == {0, 1, 127, 128, 255}
FireChaos == {0, 1, 16, 128, 255}
FireSeeds == 256 .. 511

InitFire ==
  /\ \E p \in FireProbs : table = [kind |-> "const", p |-> p]
  /\ \E d \in FireDens, c \in FireChaos :
       /\ cfg = [Defaults EXCEPT !.baseDens = [i \in Chans |-> d], !.baseChaos = c]
       /\ dens = [i \in Chans |-> d]
       /\ chaos = c
       /\ lastLine = [cmd |-> "SET",
                      kvs |-> << [k |-> "dens0", v |-> d], [k |-> "dens1", v |-> d],
                                 [k |-> "dens2", v |-> d], [k |-> "chaos", v |-> c] >>]
  /\ reply = "ok" /\ adc = NoSample /\ savedCfg = NeverSaved /\ tableRead = NoRead /\ prngCalls = 0
  /\ prng_s \in FireSeeds
  /\ eeprom = ErasedEeprom
  /\ clockEdge = FALSE /\ stepCount = U32(0, StepsBefore) /\ divCount = 0
  /\ mapX = 128 /\ mapY = 128
  /\ gates = [i \in Chans |-> [offAt_us |-> 0, active |-> FALSE]]
  /\ pins = [i \in Chans |-> FALSE]
  /\ now = 0 /\ micros = 0
  /\ pcint1_prev = 8
  /\ numCells = 25
  /\ pc = "step" /\ ch = 0
  /\ nRising = StepsBefore + 1 /\ nRaised = StepsBefore + 1
  /\ nProcessed = StepsBefore + 1
  /\ visited = {} /\ drawn = {} /\ req = {}
  /\ lastFire = [i \in Chans |-> NeverFired]
  /\ riseAt = [i \in Chans |-> 0]
  /\ ticks = 0 /\ nCmds = 1

NextFire ==
  \/ StepChannel
  \/ StepAdvance

SpecFire == InitFire /\ [][NextFire]_vars

\* The channel whose decision was made last, and the byte drawn for it.
LastDrawn == CHOOSE k \in drawn : \A j \in drawn : j <= k
LastByte  == prng_s % 256

\* C5: an unmuted channel fires exactly when r < floor(p*d/255), or p = 0 and
\* r < chaos; chaos has no influence when p > 0; with p = 255 and d = 255 it
\* fires for every r except 255.
FireRule ==
  (drawn # {}) =>
     LET k == LastDrawn
         r == LastByte
         p == table.p
         d == dens[k]
     IN  /\ (k \in req) <=> ((r < (p * d) \div 255) \/ (p = 0 /\ r < chaos))
         /\ (p > 0) => ((k \in req) <=> (r < (p * d) \div 255))
         /\ (p = 255 /\ d = 255) => ((k \in req) <=> (r # 255))

FireRuleWitness ==
  /\ drawn = {0} /\ table.p = 255 /\ dens[0] = 255 /\ chaos = 255
  /\ LastByte = 255 /\ req = {}

\* C6: with table probability 0 the channel fires exactly when r < chaos,
\* whatever the density: exactly chaos of the 256 byte values fire, and none
\* when chaos is 0.
ChaosOnly ==
  (drawn # {} /\ table.p = 0) =>
     LET k == LastDrawn IN
     /\ (k \in req) <=> (LastByte < chaos)
     /\ Cardinality({r \in Byte : FireDecision(0, dens[k], r, chaos)}) = chaos
     /\ (chaos = 0) => (k \notin req)

ChaosOnlyWitness ==
  /\ drawn = {0} /\ table.p = 0 /\ dens[0] = 255 /\ chaos = 16
  /\ LastByte = 15 /\ req = {0}

\* ------------------------------------------------ the liveness specification
\* The system with the environment's three budgets apart, so that clock edges
\* and serial lines cannot use up the clock's advances.  The control loop
\* keeps iterating (loop() is called forever and none of its statements
\* blocks for good) and the hardware counter keeps advancing while the model
\* lets it.
LinesLive ==
  {[cmd |-> "SAVE"], [cmd |-> "LOAD"], SetLine("gate0", 2), SetLine("in2en", 1)}

InitLive == Init /\ table.p = 255

EnvLeftLive == nRising + nCmds < MaxEnvLive

PCINT1Live ==
  \E v \in PincValues :
    /\ LineRose(pcint1_prev, v) => EnvLeftLive
    /\ ISR(v)

TickLive == ticks < MaxTicksLive /\ \E dt \in TickSteps : Advance(dt)

SerialLineLive == EnvLeftLive /\ \E line \in LinesLive : HandleSerial(line)

Loop ==
  \/ LoopReadCv
  \/ LoopTest
  \/ LoopClear
  \/ StepChannel
  \/ StepAdvance
  \/ LoopGateScan
  \/ HandleSerialIdle
  \/ SerialLineLive

NextLive ==
  \/ PCINT1Live
  \/ TickLive
  \/ LoopReadCv
  \/ LoopTest
  \/ LoopClear
  \/ StepChannel
  \/ StepAdvance
  \/ LoopGateScan
  \/ HandleSerialIdle
  \/ SerialLineLive

SpecLive == InitLive /\ [][NextLive]_vars /\ WF_vars(Loop) /\ WF_vars(TickLive)

\* Time still to pass before channel i's window (from its last fire) is over.
Remaining(i) ==
  IF Elapsed(lastFire[i].at, micros) >= FiredFor(i) THEN 0
  ELSE FiredFor(i) - Elapsed(lastFire[i].at, micros)

\* The advances the model still allows reach the end of the window.
TicksSuffice(i) == Remaining(i) <= (MaxTicksLive - ticks) * UnitsPerMs

\* C10: a gate scan turns off exactly the active gates whose window is over
\* at its time reading (so the first such scan does it), and sets their lines
\* low; outside processStep and the scan nothing touches a gate, whatever
\* the serial line; and with the loop iterating and the clock advancing, a
\* gate that is not fired again does not stay active: from some point on no
\* gate is active whose window the clock can still reach the end of.
ScanExpires ==
  (pc = "scan" /\ pc' = "serial") =>
     \A i \in Chans :
        /\ gates[i].active =>
             (gates'[i].active <=> (Elapsed(lastFire[i].at, micros) < FiredFor(i)))
        /\ pins'[i] = gates'[i].active

OnlyFireOrScan == (pc \notin {"step", "scan"}) => UNCHANGED <<gates, pins>>

GateExpiry ==
  /\ [][ScanExpires /\ OnlyFireOrScan]_vars
  /\ \A i \in Chans : <>[](gates[i].active => ~TicksSuffice(i))

GateExpiryWitness ==
  /\ pc = "cv" /\ nCmds = 1 /\ cfg.in2.enabled
  /\ lastFire[0].n = 1 /\ ~gates[0].active /\ ~pins[0]
  /\ Elapsed(lastFire[0].at, now) = FiredFor(0)

\* ------------------------------------------------------------ gate re-fire
\* Each channel has one GateState: one off-time and one active flag.
GateShape ==
  gates \in [Chans -> [offAt_us : 0 .. (TimeMod - 1), active : BOOLEAN]]

\* Channel i was fired in this step.
FiredNow(i) == lastFire'[i].n # lastFire[i].n

\* C11: firing channel i, whether or not its gate is already active, leaves
\* its line high and its gate active with the off-time (now + max(L,1) ms),
\* the earlier off-time gone; the gate state and the lines of the other two
\* channels are as before; and each channel has exactly one off-time.
RefireStep ==
  \A i \in Chans :
    FiredNow(i) =>
      /\ pins'[i] /\ gates'[i].active
      /\ gates'[i].offAt_us =
           (micros + (IF cfg.gateMs[i] >= 1 THEN cfg.gateMs[i] ELSE 1) * UnitsPerMs) % TimeMod
      /\ \A j \in Chans \ {i} : gates'[j] = gates[j] /\ pins'[j] = pins[j]

RefireRestarts == [] GateShape /\ [][RefireStep]_vars

RefireWitness ==
  /\ pc = "step" /\ ch = 1 /\ 0 \in req
  /\ lastFire[0].n = 2 /\ riseAt[0] # lastFire[0].at
  /\ pins[0] /\ gates[0].active
  /\ gates[0].offAt_us = (lastFire[0].at + UnitsPerMs) % TimeMod

\* --------------------------------------------------- the matrix specification
\* The control loop without clock edges, started right after a LOAD brought
\* in a configuration block: bases at their defaults, at the top and at the
\* bottom of their ranges, and as an erased EEPROM gives them; each input on
\* or off, with three routes from RouteTriples; the CV jacks at the bottom,
\* the centre and the top of the ADC range.  The host then sends GET lines.
MaxGets == 1   \* GET lines the host sends (SpecCv)

Route(t, d) == [target |-> t, depth |-> d]
Triple(a, b, c) == [i \in 0 .. 2 |-> IF i = 0 THEN a ELSE IF i = 1 THEN b ELSE c]

RouteTriples ==
  { Triple(NoSlot, NoSlot, NoSlot),
    Triple(Route(TGT_NONE, 100), Route(TGT_MAP_X, 0), Route(TGT_GATE_BD, 0)),
    Triple(Route(TGT_MAP_X, -100), Route(TGT_MAP_X, 100), NoSlot),
    Triple(Route(TGT_MAP_X, 100), Route(TGT_MAP_Y, 127), Route(TGT_CHAOS, -127)),
    Triple(Route(TGT_DENS_BD, 127), Route(TGT_DENS_SD, -127), Route(TGT_DENS_HH, 64)),
    Triple(Route(TGT_GLOBAL_DENS, -128), Route(TGT_DENS_BD, 127), Route(TGT_NONE, -1)),
    Triple(Route(TGT_GATE_BD, 127), Route(TGT_GATE_SD, -128), Route(TGT_GATE_HH, 100)),
    Triple(Route(255, -1), Route(11, 127), Route(TGT_MAP_X, -128)),
    Triple(Route(TGT_MAP_X, 100), Route(TGT_GATE_BD, 127), Route(TGT_MAP_X, 100)) }

BaseChoices ==
  { Defaults,
    [Defaults EXCEPT !.baseMapX = 250, !.baseMapY = 255,
                     !.baseDens = [i \in Chans |-> IF i = 0 THEN 255 ELSE IF i = 1 THEN 250 ELSE 0],
                     !.baseChaos = 250,
                     !.gateMs = [i \in Chans |-> IF i = 0 THEN 50 ELSE IF i = 1 THEN 20 ELSE 0]],
    [Defaults EXCEPT !.baseMapX = 0, !.baseMapY = 5,
                     !.baseDens = [i \in Chans |-> IF i = 0 THEN 0 ELSE IF i = 1 THEN 5 ELSE 255],
                     !.baseChaos = 0,
                     !.gateMs = [i \in Chans |-> IF i = 0 THEN 0 ELSE IF i = 1 THEN 1 ELSE 50]],
    [BlankRecord EXCEPT !.clockDiv = 1] }

CvConfigs ==
  { [b EXCEPT !.in2 = [enabled |-> e2, slot |-> s2],
              !.in3 = [enabled |-> e3, slot |-> s3]] :
      b \in BaseChoices, e2 \in BOOLEAN, e3 \in BOOLEAN,
      s2 \in RouteTriples, s3 \in RouteTriples }

InitCv ==
  /\ cfg \in CvConfigs
  /\ eeprom = PutCfg(cfg)
  /\ adc \in [in2 : CvSamples, in3 : CvSamples]
  /\ lastLine = [cmd |-> "LOAD"] /\ reply = "loaded" /\ savedCfg = NeverSaved /\ tableRead = NoRead /\ prngCalls = 0
  /\ nCmds = 1
  /\ nRising = 0 /\ nRaised = 0 /\ nProcessed = 0
  /\ visited = {} /\ drawn = {} /\ req = {}
  /\ lastFire = [i \in Chans |-> NeverFired]
  /\ riseAt = [i \in Chans |-> 0]
  /\ ticks = 0
  /\ clockEdge = FALSE /\ stepCount = U32(0, 0) /\ divCount = 0
  /\ mapX = 128 /\ mapY = 128
  /\ dens = [i \in Chans |-> IF i = 0 THEN 160 ELSE IF i = 1 THEN 140 ELSE 120]
  /\ chaos = 16
  /\ gates = [i \in Chans |-> [offAt_us |-> 0, active |-> FALSE]]
  /\ pins = [i \in Chans |-> FALSE]
  /\ prng_s = SeedS
  /\ now = 0 /\ micros = 0
  /\ pcint1_prev = 0
  /\ table = [kind |-> "const", p |-> 0]
  /\ numCells = 25
  /\ pc = "cv" /\ ch = 0

SerialGet == nCmds < 1 + MaxGets /\ HandleSerial([cmd |-> "GET"])

NextCv ==
  \/ LoopReadCv
  \/ LoopTest
  \/ LoopGateScan
  \/ SerialGet

SpecCv == InitCv /\ [][NextCv]_vars

\* This step is an evaluation of the matrix on cfg: the one at the top of
\* the loop, or the one in GET handling.
Evaluated ==
  \/ pc = "cv" /\ pc' = "test"
  \/ pc = "serial" /\ nCmds' # nCmds /\ lastLine'.cmd = "GET"

Clip(v, lo, hi) == IF v < lo THEN lo ELSE IF v > hi THEN hi ELSE v

\* What route s adds to a target among tgts for centred CV c; gate targets
\* take an eighth of it (div = 8).
RouteAdds(s, c, tgts, div) ==
  IF s.target \in tgts THEN TruncDiv(TruncDiv(c * s.depth, 127), div) ELSE 0

InputAdds(inp, raw, tgts, div) ==
  IF inp.enabled
    THEN RouteAdds(inp.slot[0], cvNormCentered(raw), tgts, div)
         + RouteAdds(inp.slot[1], cvNormCentered(raw), tgts, div)
         + RouteAdds(inp.slot[2], cvNormCentered(raw), tgts, div)
    ELSE 0

\* The sum, over the routes of both inputs of c, of what goes to targets tgts.
SumToIn(c, tgts, div) ==
  InputAdds(c.in2, adc.in2, tgts, div) + InputAdds(c.in3, adc.in3, tgts, div)

SumTo(tgts, div) == SumToIn(cfg, tgts, div)

NoOpRoute(s) == s.depth = 0 \/ s.target = TGT_NONE

AllNoOp(inp) == inp.enabled => \A i \in 0 .. 2 : NoOpRoute(inp.slot[i])

\* cfg with the no-op routes of both inputs taken out.
Stripped ==
  LET strip(inp) == [inp EXCEPT !.slot =
                       [i \in 0 .. 2 |-> IF NoOpRoute(inp.slot[i]) THEN NoSlot
                                         ELSE inp.slot[i]]]
  IN  [cfg EXCEPT !.in2 = strip(cfg.in2), !.in3 = strip(cfg.in3)]

\* The runtime values this step publishes are those of evaluation result out.
PublishedAs(out) ==
  /\ mapX' = out.mapX /\ mapY' = out.mapY /\ dens' = out.dens /\ chaos' = out.chaos
  /\ cfg'.gateMs = out.cfg.gateMs

\* C12: an evaluation publishes what it would with the routes of depth 0 or
\* target NONE taken out, whatever the CV samples and the bases; and when
\* every route of every enabled input is such a route, it publishes the
\* bases themselves (a gate length base being one in 0 .. 50).
NoOpStep ==
  Evaluated =>
    /\ PublishedAs(RunCv(Stripped, adc.in2, adc.in3))
    /\ (AllNoOp(cfg.in2) /\ AllNoOp(cfg.in3)) =>
         /\ mapX' = cfg.baseMapX /\ mapY' = cfg.baseMapY
         /\ dens' = cfg.baseDens /\ chaos' = cfg.baseChaos
         /\ \A i \in Chans : cfg.gateMs[i] \in 0 .. 50 => cfg'.gateMs[i] = cfg.gateMs[i]

AdditiveStep ==
  Evaluated =>
    /\ mapX' = Clip(cfg.baseMapX + SumTo({TGT_MAP_X}, 1), 0, 255)
    /\ mapY' = Clip(cfg.baseMapY + SumTo({TGT_MAP_Y}, 1), 0, 255)
    /\ \A i \in Chans :
         dens'[i] = Clip(cfg.baseDens[i] + SumTo({TGT_DENS_BD + i, TGT_GLOBAL_DENS}, 1), 0, 255)
    /\ chaos' = Clip(cfg.baseChaos + SumTo({TGT_CHAOS}, 1), 0, 255)
    /\ \A i \in Chans :
         cfg'.gateMs[i] = Clip(cfg.gateMs[i] + SumTo({TGT_GATE_BD + i}, 8), 0, 50)

AdditiveComposition == [][AdditiveStep]_vars

\* Base 250 with deltas of +100 and -100 from one input (250, where a clamp
\* after the first route would give 155) and a delta of +100 from the other
\* gives 350, published as 255.
AdditiveWitness ==
  /\ pc = "test" /\ cfg.in2.enabled /\ cfg.in3.enabled /\ adc.in2 = 0 /\ adc.in3 = 1023
  /\ cfg.in2.slot = Triple(Route(TGT_MAP_X, -100), Route(TGT_MAP_X, 100), NoSlot)
  /\ cfg.in3.slot = Triple(Route(TGT_NONE, 100), Route(TGT_MAP_X, 0), Route(TGT_GATE_BD, 0))
  /\ cfg.baseMapX = 250 /\ mapX = 250

\* C14: after every evaluation of the matrix, position, densities and chaos
\* lie in 0 .. 255 and the gate lengths in 0 .. 50, whatever the
\* configuration block holds.
RangeStep ==
  Evaluated =>
    /\ mapX' \in 0 .. 255 /\ mapY' \in 0 .. 255 /\ chaos' \in 0 .. 255
    /\ \A i \in Chans : dens'[i] \in 0 .. 255 /\ cfg'.gateMs[i] \in 0 .. 50

RuntimeRanges == [][RangeStep]_vars

RuntimeRangesWitness ==
  /\ pc = "test" /\ cfg.in2.enabled /\ adc.in2 = 1023 /\ ~cfg.in3.enabled
  /\ cfg.in2.slot = Triple(Route(255, -1), Route(11, 127), Route(TGT_MAP_X, -128))
  /\ cfg.baseMapX = 0 /\ mapX = 0 /\ cfg.gateMs[2] = 50 /\ cfg.baseDens[2] = 255

\* C15: while an input is not enabled, an evaluation publishes what it
\* would for any other CV sample on that input and any other three routes
\* of it.
DisabledStep ==
  Evaluated =>
    /\ ~cfg.in2.enabled =>
         \A raw \in CvSamples, s \in RouteTriples :
            PublishedAs(RunCv([cfg EXCEPT !.in2.slot = s], raw, adc.in3))
    /\ ~cfg.in3.enabled =>
         \A raw \in CvSamples, s \in RouteTriples :
            PublishedAs(RunCv([cfg EXCEPT !.in3.slot = s], adc.in2, raw))

DisabledInputSilent == [][DisabledStep]_vars

DisabledWitness ==
  /\ pc = "test" /\ ~cfg.in2.enabled /\ cfg.in3.enabled /\ adc.in2 = 0 /\ adc.in3 = 1023
  /\ cfg.in2.slot = Triple(Route(TGT_MAP_X, 100), Route(TGT_GATE_BD, 127), Route(TGT_MAP_X, 100))
  /\ cfg.in3.slot = Triple(NoSlot, NoSlot, NoSlot)
  /\ cfg.baseMapX = 128 /\ mapX = 128 /\ cfg.gateMs[0] = 0

\* C16: the configuration block changes in the handling of a SET or LOAD
\* line only: not in an evaluation of the matrix, not in a step.
CfgFrameStep ==
  (cfg' # cfg) => (pc = "serial" /\ nCmds' # nCmds /\ lastLine'.cmd \in {"SET", "LOAD"})

CfgFrame == [][CfgFrameStep]_vars

\* ---------------------------------------------------- the store specification
\* The control loop without clock edges, with the host sending SAVE, LOAD
\* and SET lines; the CV at A4 is at the bottom or at the top of its range,
\* so that a route to a gate length (set by the third line below) moves it.
MaxCmdsStore == 3   \* serial lines the host sends (SpecStore)

LinesStore ==
  {[cmd |-> "SAVE"], [cmd |-> "LOAD"],
   SetLine("mapX", 7),
   [cmd |-> "SET", kvs |-> << [k |-> "in2en", v |-> 1], [k |-> "in2t0", v |-> TGT_GATE_BD],
                              [k |-> "in2d0", v |-> -100], [k |-> "gate0", v |-> 20] >>],
   [cmd |-> "SET", kvs |-> << [k |-> "in3d1", v |-> -128], [k |-> "clockDiv", v |-> 4],
                              [k |-> "dens1", v |-> 300] >>]}

InitStore ==
  /\ InitProgram
  /\ nRising = 0 /\ nRaised = 0 /\ nProcessed = 0
  /\ visited = {} /\ drawn = {} /\ req = {}
  /\ lastFire = [i \in Chans |-> NeverFired]
  /\ riseAt = [i \in Chans |-> 0]
  /\ ticks = 0 /\ nCmds = 0
  /\ adc \in [in2 : {0, 1023}, in3 : {512}]
  /\ lastLine = NoLine /\ reply = "none" /\ savedCfg = NeverSaved /\ tableRead = NoRead /\ prngCalls = 0
  /\ eeprom = ErasedEeprom
  /\ pcint1_prev = 0
  /\ micros = 0
  /\ table = [kind |-> "const", p |-> 0]
  /\ numCells = 25

SerialLineStore == nCmds < MaxCmdsStore /\ \E line \in LinesStore : HandleSerial(line)

NextStore ==
  \/ LoopReadCv
  \/ LoopTest
  \/ LoopGateScan
  \/ HandleSerialIdle
  \/ SerialLineStore

SpecStore == InitStore /\ [][NextStore]_vars

\* This step handles a line with command c.
Handled(c) == pc = "serial" /\ nCmds' # nCmds /\ lastLine'.cmd = c

\* C17: a LOAD after a SAVE leaves the configuration block exactly as it was
\* at the moment of the last SAVE, whatever was set and however the block
\* changed in between; and SAVE itself leaves the block alone.
RoundTripStep ==
  /\ (Handled("LOAD") /\ savedCfg # NeverSaved) => cfg' = savedCfg
  /\ Handled("SAVE") => (cfg' = cfg /\ GetCfg(eeprom') = cfg)

SaveLoadRoundTrip == [][RoundTripStep]_vars

\* SAVE, SET mapX=7, LOAD: the base is back at 128 while the runtime value
\* still is the 7 that the SET handling published.
RoundTripWitness ==
  /\ lastLine.cmd = "LOAD" /\ nCmds = 3 /\ savedCfg # NeverSaved /\ cfg = savedCfg
  /\ cfg.baseMapX = 128 /\ mapX = 7

\* ------------------------------------------------------ the SET specification
\* handleSerial with one SET line, then the top of the next loop pass.  The
\* line finds either the configuration of setup(), or the one that an earlier
\* line (PriorLine, which routes the CV at A4 to the first gate length) and
\* the loop pass after it have left.
SetKeys == KnownKeys \cup {"foo", "MAPX", ""}

SetValues ==
  {-40000, -32768, -128, -127, -1, 0, 1, 3, 8, 9, 10, 11, 50, 51, 127, 128, 255, 256,
   32767, 40000, 65636}

OrderLine ==
  [cmd |-> "SET", kvs |-> << [k |-> "mapX", v |-> 7], [k |-> "bar", v |-> 1],
                             [k |-> "mapX", v |-> 9], [k |-> "chaos", v |-> 3] >>]

SetLines ==
  {SetLine(k, v) : k \in SetKeys, v \in SetValues}
  \cup {OrderLine,
        [cmd |-> "SET", kvs |-> << [k |-> "gate0", v |-> 10], [k |-> "nokey", v |-> 300],
                                   [k |-> "gate0", v |-> 60] >>],
        [cmd |-> "SET", kvs |-> << [k |-> "foo", v |-> 1], [k |-> "", v |-> 2] >>]}

PriorLine ==
  [cmd |-> "SET", kvs |-> << [k |-> "in2en", v |-> 1], [k |-> "in2t0", v |-> TGT_GATE_BD],
                             [k |-> "in2d0", v |-> -100], [k |-> "gate0", v |-> 20],
                             [k |-> "mapX", v |-> 200], [k |-> "in3t1", v |-> TGT_DENS_HH],
                             [k |-> "in3d1", v |-> -5] >>]

InitSet ==
  /\ adc \in [in2 : {0, 1023}, in3 : {512}]
  /\ \E prior \in BOOLEAN :
       LET a == RunCv(parseSetKV(Defaults, PriorLine.kvs), adc.in2, adc.in3)
           b == IF prior THEN RunCv(a.cfg, adc.in2, adc.in3)
                ELSE RunCv(Defaults, adc.in2, adc.in3)
       IN  /\ cfg = b.cfg
           /\ mapX = b.mapX /\ mapY = b.mapY /\ dens = b.dens /\ chaos = b.chaos
           /\ nCmds = IF prior THEN 1 ELSE 0
           /\ lastLine = IF prior THEN PriorLine ELSE NoLine
           /\ reply = IF prior THEN "ok" ELSE "none"
  /\ savedCfg = NeverSaved /\ tableRead = NoRead /\ prngCalls = 0
  /\ eeprom = ErasedEeprom
  /\ nRising = 0 /\ nRaised = 0 /\ nProcessed = 0
  /\ visited = {} /\ drawn = {} /\ req = {}
  /\ lastFire = [i \in Chans |-> NeverFired]
  /\ riseAt = [i \in Chans |-> 0]
  /\ ticks = 0
  /\ clockEdge = FALSE /\ stepCount = U32(0, 0) /\ divCount = 0
  /\ gates = [i \in Chans |-> [offAt_us |-> 0, active |-> FALSE]]
  /\ pins = [i \in Chans |-> FALSE]
  /\ prng_s = SeedS
  /\ now = 0 /\ micros = 0
  /\ pcint1_prev = 0
  /\ table = [kind |-> "const", p |-> 0]
  /\ numCells = 25
  /\ pc = "serial" /\ ch = 0

SerialSet == \E line \in SetLines : HandleSerial(line)

NextSet ==
  \/ SerialSet
  \/ LoopReadCv
  \/ LoopTest

SpecSet == InitSet /\ [][NextSet]_vars

\* The field that key k names, and its legal range.
FieldOf(c, k) ==
  IF      k = "mapX"     THEN c.baseMapX
  ELSE IF k = "mapY"     THEN c.baseMapY
  ELSE IF k = "dens0"    THEN c.baseDens[0]
  ELSE IF k = "dens1"    THEN c.baseDens[1]
  ELSE IF k = "dens2"    THEN c.baseDens[2]
  ELSE IF k = "chaos"    THEN c.baseChaos
  ELSE IF k = "gate0"    THEN c.gateMs[0]
  ELSE IF k = "gate1"    THEN c.gateMs[1]
  ELSE IF k = "gate2"    THEN c.gateMs[2]
  ELSE IF k = "clockDiv" THEN c.clockDiv
  ELSE IF k = "in2t0"    THEN c.in2.slot[0].target
  ELSE IF k = "in2t1"    THEN c.in2.slot[1].target
  ELSE IF k = "in2t2"    THEN c.in2.slot[2].target
  ELSE IF k = "in2d0"    THEN c.in2.slot[0].depth
  ELSE IF k = "in2d1"    THEN c.in2.slot[1].depth
  ELSE IF k = "in2d2"    THEN c.in2.slot[2].depth
  ELSE IF k = "in3t0"    THEN c.in3.slot[0].target
  ELSE IF k = "in3t1"    THEN c.in3.slot[1].target
  ELSE IF k = "in3t2"    THEN c.in3.slot[2].target
  ELSE IF k = "in3d0"    THEN c.in3.slot[0].depth
  ELSE IF k = "in3d1"    THEN c.in3.slot[1].depth
  ELSE c.in3.slot[2].depth

GateKeys   == {"gate0", "gate1", "gate2"}
TargetKeys == {"in2t0", "in2t1", "in2t2", "in3t0", "in3t1", "in3t2"}
DepthKeys  == {"in2d0", "in2d1", "in2d2", "in3d0", "in3d1", "in3d2"}
NumericKeys == KnownKeys \ {"in2en", "in3en"}

KeyLo(k) == IF k \in DepthKeys THEN -127 ELSE IF k = "clockDiv" THEN 1 ELSE 0
KeyHi(k) ==
  IF k \in GateKeys THEN 50
  ELSE IF k = "clockDiv" THEN 8
  ELSE IF k \in TargetKeys THEN 10
  ELSE IF k \in DepthKeys THEN 127
  ELSE 255

GateIndex(k) == IF k = "gate0" THEN 0 ELSE IF k = "gate1" THEN 1 ELSE 2

\* This step handles a SET line of the one pair k=v, k a numeric field.
SetsOne(k, v) ==
  /\ Handled("SET")
  /\ lastLine'.kvs = << [k |-> k, v |-> v] >>
  /\ k \in NumericKeys

\* C18: SET stores, for every known key and every integer value, the value
\* clamped to the field's legal range.
SetClampStep ==
  \A k \in SetKeys, v \in SetValues :
    SetsOne(k, v) => FieldOf(cfg', k) = Clip(v, KeyLo(k), KeyHi(k))

SetClamps == [][SetClampStep]_vars

\* C19: the pairs of a SET line whose key is not known change nothing: the
\* line leaves the configuration and the runtime values as the same line
\* without those pairs does, the known pairs after an unknown one included
\* and in their order; a line of unknown keys only leaves every field as an
\* evaluation of the matrix alone does; and SET answers with its "ok".
UnknownKeyStep ==
  Handled("SET") =>
    LET known == SelectSeq(lastLine'.kvs, LAMBDA kv : kv.k \in KnownKeys)
        out   == RunCv(parseSetKV(cfg, known), adc.in2, adc.in3)
    IN  /\ reply' = "ok"
        /\ cfg' = out.cfg /\ PublishedAs(out)
        /\ (known = << >>) => cfg' = RunCv(cfg, adc.in2, adc.in3).cfg
        /\ (known = << >>) => [cfg' EXCEPT !.gateMs = cfg.gateMs] = cfg
        /\ (lastLine' = OrderLine) => (cfg'.baseMapX = 9 /\ cfg'.baseChaos = 3)

UnknownKeysIgnored == [][UnknownKeyStep]_vars

UnknownKeyWitness ==
  /\ pc = "cv" /\ lastLine = OrderLine /\ reply = "ok"
  /\ cfg.baseMapX = 9 /\ cfg.baseChaos = 3 /\ mapX = 9 /\ chaos = 3 /\ nCmds = 2

\* C20 as stated: a pair whose value lies outside the field's legal range
\* leaves the field at its previous value.
OutOfRangeDropStep ==
  \A k \in SetKeys, v \in SetValues :
    (SetsOne(k, v) /\ v \notin KeyLo(k) .. KeyHi(k)) => FieldOf(cfg', k) = FieldOf(cfg, k)

OutOfRangeDropped == [][OutOfRangeDropStep]_vars

\* C20 as amended: a pair whose value lies outside the field's legal range
\* is not dropped: the field is assigned the value, as narrowed to the
\* 16-bit int, clamped to the legal range; a gate length assigned this way
\* then takes the modulation of the evaluation that ends the SET handling.
OutOfRangeClampStep ==
  \A k \in SetKeys, v \in SetValues :
    (SetsOne(k, v) /\ v \notin KeyLo(k) .. KeyHi(k)) =>
       LET x == Clip(ToInt16(v), KeyLo(k), KeyHi(k)) IN
       IF k \in GateKeys
         THEN cfg'.gateMs[GateIndex(k)] =
                Clip(x + SumToIn(cfg, {TGT_GATE_BD + GateIndex(k)}, 8), 0, 50)
         ELSE FieldOf(cfg', k) = x

OutOfRangeClamped == [][OutOfRangeClampStep]_vars

OutOfRangeWitness ==
  /\ pc = "cv" /\ lastLine = SetLine("in3d1", -128) /\ nCmds = 2
  /\ cfg.in3.slot[1].depth = -127


\* C21: a division factor below 1 counts as 1: SET clockDiv with a value of
\* 0 or less stores 1, and with a stored factor below 1 (a 0 that LOAD
\* brought in) the handler's comparison is the one of factor 1, so that the
\* first rising edge after a raise raises the flag again.
ClockDivCoercedStep ==
  /\ \A v \in SetValues : (SetsOne("clockDiv", v) /\ v <= 0) => cfg'.clockDiv = 1
  /\ \A n \in {0, cfg.clockDiv}, d \in 1 .. 255 :
       DivReached(d, n) <=> d >= (IF n < 1 THEN 1 ELSE n)

ClockDivCoerced == [][ClockDivCoercedStep]_vars

\* --------------------------------------------------- the table specification
\* readProb called directly, on builds of each table size, with cell
\* arguments on both sides of the table and of the 16-bit parameter.
CellCounts == {1, 2, 3, 4, 5, 8, 9, 15, 16, 24, 25, 26, 36, 100, 255, 256, 300, 341}
RampTables == {[kind |-> "ramp", p |-> 0], [kind |-> "ramp", p |-> 10]}
CellArgs   == {-32768, -26, -2, -1, 0, 1, 24, 25, 26, 341, 342, 32767, 65535}
StepArgs   == 0 .. (GRIDS_STEPS - 1)

\* The conversion of an integer argument to the parameter uint16_t cell.
ToU16(a) == a % 65536

\* The state after setup(), for each table and table size.
InitTable ==
  /\ InitProgram
  /\ InitHistory
  /\ eeprom = ErasedEeprom
  /\ pcint1_prev = 0
  /\ micros = 0
  /\ table \in RampTables \cup Tables
  /\ numCells \in CellCounts

\* readProb(a, k, st), called once in a run.
CallReadProb ==
  \E a \in CellArgs \cup {numCells - 1, numCells, numCells + 1}, k \in Chans,
     st \in StepArgs :
    /\ ~tableRead.made
    /\ tableRead' = [made |-> TRUE, cell |-> a, chan |-> k, step |-> st,
                     p |-> readProb(table, numCells, ToU16(a), k, st)]
    /\ UNCHANGED <<progVars, histVars, adc, lastLine, reply, savedCfg, prngCalls>>

NextTable == CallReadProb

SpecTable == InitTable /\ [][NextTable]_vars

\* C22 as stated: for every integer cell id outside [0, NUM_CELLS), readProb
\* returns the byte it returns for the id clamped into [0, NUM_CELLS-1], for
\* every channel and step.
ClampAnyCell ==
  (tableRead.made /\ tableRead.cell \notin 0 .. (numCells - 1)) =>
    tableRead.p = readProb(table, numCells, Clip(tableRead.cell, 0, numCells - 1),
                           tableRead.chan, tableRead.step)

\* C22 as the code has it: the cell parameter is an unsigned 16-bit integer;
\* for every id from NUM_CELLS up, and for every integer argument that the
\* conversion to the parameter takes there (the negative ones), readProb
\* returns the byte of cell NUM_CELLS-1, for every channel and step.
ClampUnsignedCell ==
  (tableRead.made /\ ToU16(tableRead.cell) >= numCells) =>
    tableRead.p = readProb(table, numCells, numCells - 1, tableRead.chan, tableRead.step)

ClampWitness ==
  /\ numCells = 25 /\ table = [kind |-> "ramp", p |-> 0]
  /\ tableRead = [made |-> TRUE, cell |-> 26, chan |-> 2, step |-> 31, p |-> 197]

\* ---------------------------------------------------- the grid specification
\* processStep alone, on builds of each table size, at each position of the
\* map and at step counters up to the largest.  For 25 cells every (x, y) is
\* taken; for the other sizes the positions on both sides of the cell
\* borders.  The history counters count from the start of the observation.
XYSamples ==
  {0, 1, 50, 51, 52, 63, 64, 85, 86, 127, 128, 170, 171, 191, 192, 204, 205, 254, 255}
StepCounts == {U32(0, 0), U32(0, 31), U32(0, StepsBefore), U32(Half - 1, Half - 1)}

InitGrid ==
  /\ \E n \in CellCounts :
       \E x, y \in (IF n = 25 THEN Byte ELSE XYSamples) :
         /\ numCells = n
         /\ mapX = x /\ mapY = y
         /\ cfg = [Defaults EXCEPT !.baseMapX = x, !.baseMapY = y]
         /\ lastLine = [cmd |-> "SET",
                        kvs |-> << [k |-> "mapX", v |-> x], [k |-> "mapY", v |-> y] >>]
         /\ stepCount \in (IF n = 25 THEN {U32(0, 0)} ELSE StepCounts)
  /\ reply = "ok" /\ adc = NoSample /\ savedCfg = NeverSaved /\ tableRead = NoRead /\ prngCalls = 0
  /\ table = [kind |-> "ramp", p |-> 0]
  /\ eeprom = ErasedEeprom
  /\ clockEdge = FALSE /\ divCount = 0
  /\ dens = [i \in Chans |-> IF i = 0 THEN 160 ELSE IF i = 1 THEN 140 ELSE 120]
  /\ chaos = 16
  /\ gates = [i \in Chans |-> [offAt_us |-> 0, active |-> FALSE]]
  /\ pins = [i \in Chans |-> FALSE]
  /\ prng_s = SeedS
  /\ now = 0 /\ micros = 0
  /\ pcint1_prev = 8
  /\ pc = "step" /\ ch = 0
  /\ nRising = 1 /\ nRaised = 1 /\ nProcessed = 1
  /\ visited = {} /\ drawn = {} /\ req = {}
  /\ lastFire = [i \in Chans |-> NeverFired]
  /\ riseAt = [i \in Chans |-> 0]
  /\ ticks = 0 /\ nCmds = 1

NextGrid ==
  \/ StepChannel
  \/ StepAdvance

SpecGrid == InitGrid /\ [][NextGrid]_vars

\* The largest w with w*w <= n, for the table sizes a build can have.
Sides == 1 .. 19
FloorSqrt(n) == CHOOSE w \in Sides : w * w <= n /\ (w + 1) * (w + 1) > n

\* C23: the cell processStep works on is a function of (x, y) and the table
\* size alone: with W = floor(sqrt(NUM_CELLS)) and H = max(1, NUM_CELLS / W)
\* it is min(NUM_CELLS-1, floor(y*H/256)*W + floor(x*W/256)), and for 25
\* cells floor(y*5/256)*5 + floor(x*5/256).
CellFormula ==
  LET W == FloorSqrt(numCells)
      H == Max(1, numCells \div W)
  IN  /\ xyToCell(numCells, mapX, mapY) =
           Min(numCells - 1, ((mapY * H) \div 256) * W + ((mapX * W) \div 256))
      /\ (numCells = 25) =>
           xyToCell(numCells, mapX, mapY) =
             ((mapY * 5) \div 256) * 5 + ((mapX * 5) \div 256)

CellWitness ==
  /\ pc = "inc" /\ drawn = Chans
  /\ numCells = 25 /\ mapX = 52 /\ mapY = 204
  /\ xyToCell(numCells, mapX, mapY) = 16

\* C24: whenever processStep reads the table, the cell is in [0, NUM_CELLS)
\* (and the clamp of readProb leaves it), the step is the step counter
\* modulo 32 and so in [0, 32), the channel is in [0, 3), and the byte index
\* channel*32 + step is in [0, 96).
TableBounds ==
  (pc = "step") =>
    LET cell == xyToCell(numCells, mapX, mapY)
        step == StepIndex(stepCount)
    IN  /\ cell \in 0 .. (numCells - 1)
        /\ ReadCell(numCells, cell) = cell
        /\ step \in 0 .. (GRIDS_STEPS - 1)
        /\ ch \in 0 .. (GRIDS_CHANNELS - 1)
        /\ ReadIdx(ch, step) \in 0 .. (GRIDS_CHANNELS * GRIDS_STEPS - 1)

TableBoundsWitness ==
  /\ pc = "step" /\ ch = 2 /\ drawn = {0, 1}
  /\ numCells = 341 /\ mapX = 255 /\ mapY = 255
  /\ stepCount = U32(Half - 1, Half - 1)
  /\ xyToCell(numCells, mapX, mapY) = 323
  /\ ReadIdx(ch, StepIndex(stepCount)) = 95

\* C25: output and modulation exclude each other on an input's pin pair:
\* whenever input 2 is enabled the line of channel 0 is not high, and
\* whenever input 3 is enabled the line of channel 1 is not high, right after
\* a SET or LOAD that enables the input while that gate is active included.
OutputModulationExclusive ==
  /\ cfg.in2.enabled => ~pins[0]
  /\ cfg.in3.enabled => ~pins[1]

\* C26: the loop's test of the step-due flag and its clear are one
\* interrupt-masked section: the handler does not run between them.
AtomicCheckAndClearStep == (pc = "clear") => pcint1_prev' = pcint1_prev

AtomicCheckAndClear == [][AtomicCheckAndClearStep]_vars

\* C27 as stated: the flag is still set while processStep runs (and cleared
\* after it has returned).
FlagSetDuringStep == InStep => clockEdge

\* C27 as the code has it: the loop clears the flag before it calls
\* processStep; processStep and its return never clear it, so that while
\* processStep runs the flag changes only by the handler raising it.
FlagClearedBeforeStepAction ==
  /\ (pc = "clear" /\ pc' = "step") => ~clockEdge'
  /\ (InStep /\ clockEdge' # clockEdge) => (clockEdge' /\ nRaised' = nRaised + 1)

FlagClearedBeforeStep == [][FlagClearedBeforeStepAction]_vars

FlagKeptWitness ==
  pc = "scan" /\ clockEdge /\ nRaised = 2 /\ nProcessed = 1 /\ stepCount = U32(0, 1)

\* C29: at every start of a loop iteration each channel's line is high
\* exactly when its GateState is active; a line is low from startup until
\* the channel's first fire, and a line goes high only in a step that fires
\* its channel (so it stays low after an expiry until the next fire).
GateLineState ==
  /\ (pc = "cv") => \A i \in Chans : pins[i] = gates[i].active
  /\ \A i \in Chans : (lastFire[i].n = 0) => ~pins[i]

GateLineStep == \A i \in Chans : (pins'[i] /\ ~pins[i]) => FiredNow(i)

GateLineMatches == [] GateLineState /\ [][GateLineStep]_vars

GateLineWitness ==
  /\ pc = "cv"
  /\ pins[0] /\ gates[0].active /\ lastFire[0].len = 2
  /\ ~pins[1] /\ ~gates[1].active /\ lastFire[1].n = 1

\* C30: every gate-on request carries a length in 0 .. 50 ms, the first step
\* after a LOAD of any record or after a SET included: from the evaluation
\* of the matrix at the top of the loop to the end of processStep the gate
\* lengths are in 0 .. 50, and so is the length of every fire.
GateLengthInRange ==
  /\ (pc \in {"test", "clear", "step", "inc"}) => \A i \in Chans : cfg.gateMs[i] \in 0 .. 50
  /\ \A i \in Chans : lastFire[i].len \in 0 .. 50

GateLengthWitness ==
  /\ lastLine.cmd = "LOAD" /\ cfg.baseChaos = 255
  /\ pc = "inc" /\ 2 \in req
  /\ lastFire[2].n = 1 /\ lastFire[2].len = 50 /\ pins[2]

\* -------------------------------------------------- the counter specification
\* The whole program, observed from the top of a loop iteration at which the
\* step counter stands two steps before position 0: at 30, and at 2^32 - 2,
\* two steps before the 32-bit counter overflows.  The history counters
\* count from the start of the observation.
CountStarts == {U32(0, GRIDS_STEPS - 2), U32(Half - 1, Half - 2)}

InitCount ==
  /\ cfg = Defaults
  /\ clockEdge = FALSE /\ divCount = 0
  /\ stepCount \in CountStarts
  /\ mapX = 128 /\ mapY = 128
  /\ dens = [i \in Chans |-> IF i = 0 THEN 160 ELSE IF i = 1 THEN 140 ELSE 120]
  /\ chaos = 16
  /\ gates = [i \in Chans |-> [offAt_us |-> 0, active |-> FALSE]]
  /\ pins = [i \in Chans |-> FALSE]
  /\ prng_s = SeedS
  /\ now = 0
  /\ pc = "cv" /\ ch = 0
  /\ InitHistory
  /\ eeprom = ErasedEeprom
  /\ pcint1_prev = 0
  /\ micros = 0
  /\ table \in Tables
  /\ numCells = 25

SpecCount == InitCount /\ [][Next]_vars

\* The position at which the observation starts.
StartIndex == StepIndex(CHOOSE sc \in CountStarts : TRUE)

\* C28: every processStep advances the step position by exactly one modulo
\* 32 (31 -> 0), whatever its channels did, the overflow of the 32-bit
\* counter included; no other step of the program changes the counter.
StepCounterState ==
  StepIndex(stepCount) =
    (StartIndex + nProcessed - (IF InStep THEN 1 ELSE 0)) % GRIDS_STEPS

StepCounterStep ==
  IF pc = "inc" /\ pc' = "scan"
    THEN StepIndex(stepCount') = (StepIndex(stepCount) + 1) % GRIDS_STEPS
    ELSE stepCount' = stepCount

StepCounter == [] StepCounterState /\ [][StepCounterStep]_vars

StepCounterWitness ==
  /\ pc = "scan" /\ stepCount = U32(0, 0) /\ nProcessed = 2
  /\ cfg.in2.enabled /\ drawn = {1, 2}

\* C31: modulation is recomputed, not accumulated: with the configuration as
\* LOAD brought it in and constant CV samples, every evaluation of the
\* matrix publishes, for each channel, the gate length clamp(base gate
\* length + sum of the eighths of the deltas routed to it, 0, 50), the base
\* being the one of the record that was loaded.
RecomputedStep ==
  Evaluated =>
    \A i \in Chans :
      cfg'.gateMs[i] = Clip(GetCfg(eeprom).gateMs[i] + SumTo({TGT_GATE_BD + i}, 8), 0, 50)

Recomputed == [][RecomputedStep]_vars

\* ------------------------------------------- the normalisation specification
\* The control loop without clock edges, started right after a LOAD brought
\* in a configuration block, up to the end of the first loop pass.  In the
\* blocks of NormConfigs input 2 is on with a route to MAP_X and a route to
\* GATE_BD of one depth d, the bases (128 and 20) far enough from the clamps
\* for the deltas to show: every sample 0 .. 1023 with the depths of
\* DepthSamples, and every depth -127 .. 127 with the samples of RawGrid,
\* which give every centred value.  In the blocks of TargetConfigs one input
\* is on with one route, of each target id in TargetIds.
AllRaw       == 0 .. 1023
AllDepths    == -127 .. 127
DepthSamples == {-127, -126, -64, -1, 0, 1, 64, 127}
RawGrid      == {raw \in AllRaw : raw % 4 = 0}
TargetIds    == (0 .. 11) \cup {255}
TargetDepths == {-127, 64, 127}
GateBase     == [i \in Chans |-> 20]

NormConfig(d) ==
  [Defaults EXCEPT !.gateMs = GateBase,
                   !.in2 = [enabled |-> TRUE,
                            slot |-> Triple(Route(TGT_MAP_X, d), Route(TGT_GATE_BD, d), NoSlot)]]

OneRoute(j, t, d) == [i \in 0 .. 2 |-> IF i = j THEN Route(t, d) ELSE NoSlot]

TargetConfig(k, j, t, d) ==
  IF k = 2
    THEN [Defaults EXCEPT !.gateMs = GateBase,
                          !.in2 = [enabled |-> TRUE, slot |-> OneRoute(j, t, d)]]
    ELSE [Defaults EXCEPT !.gateMs = GateBase,
                          !.in3 = [enabled |-> TRUE, slot |-> OneRoute(j, t, d)]]

InitNorm ==
  /\ \/ \E raw \in AllRaw, d \in DepthSamples :
          cfg = NormConfig(d) /\ adc = [in2 |-> raw, in3 |-> 512]
     \/ \E raw \in RawGrid, d \in AllDepths :
          cfg = NormConfig(d) /\ adc = [in2 |-> raw, in3 |-> 512]
     \/ \E k \in {2, 3}, j \in 0 .. 2, t \in TargetIds, d \in TargetDepths,
           raw \in {0, 1023} :
          /\ cfg = TargetConfig(k, j, t, d)
          /\ adc = IF k = 2 THEN [in2 |-> raw, in3 |-> 512] ELSE [in2 |-> 512, in3 |-> raw]
  /\ eeprom = PutCfg(cfg)
  /\ lastLine = [cmd |-> "LOAD"] /\ reply = "loaded" /\ savedCfg = NeverSaved /\ tableRead = NoRead /\ prngCalls = 0
  /\ nCmds = 1
  /\ nRising = 0 /\ nRaised = 0 /\ nProcessed = 0
  /\ visited = {} /\ drawn = {} /\ req = {}
  /\ lastFire = [i \in Chans |-> NeverFired]
  /\ riseAt = [i \in Chans |-> 0]
  /\ ticks = 0
  /\ clockEdge = FALSE /\ stepCount = U32(0, 0) /\ divCount = 0
  /\ mapX = 128 /\ mapY = 128
  /\ dens = [i \in Chans |-> IF i = 0 THEN 160 ELSE IF i = 1 THEN 140 ELSE 120]
  /\ chaos = 16
  /\ gates = [i \in Chans |-> [offAt_us |-> 0, active |-> FALSE]]
  /\ pins = [i \in Chans |-> FALSE]
  /\ prng_s = SeedS
  /\ now = 0 /\ micros = 0
  /\ pcint1_prev = 0
  /\ table = [kind |-> "const", p |-> 0]
  /\ numCells = 25
  /\ pc = "cv" /\ ch = 0

NextNorm ==
  \/ LoopReadCv
  \/ LoopTest
  \/ LoopGateScan

SpecNorm == InitNorm /\ [][NextNorm]_vars

\* cfg is a block of NormConfigs.
IsNormConfig == cfg = NormConfig(cfg.in2.slot[0].depth)

\* C32: for every raw sample in 0 .. 1023 the centred value raw - 512 is in
\* -512 .. 511 and the rescaled value is trunc((raw-512)*127/512), in
\* -127 .. 127, and 0 for raw = 512; the delta of a route of depth d in
\* -127 .. 127 is trunc(c*d/127), in -127 .. 127, and what a gate length takes
\* of it is trunc(delta/8), in -15 .. 15.
NormStep ==
  (Evaluated /\ IsNormConfig) =>
    LET raw   == adc.in2
        d     == cfg.in2.slot[0].depth
        c     == TruncDiv((raw - 512) * 127, 512)
        delta == mapX' - cfg.baseMapX
        g     == cfg'.gateMs[0] - cfg.gateMs[0]
    IN  /\ (raw - 512) \in -512 .. 511
        /\ cvNormCentered(raw) = c
        /\ c \in -127 .. 127
        /\ (raw = 512) => (c = 0)
        /\ delta = TruncDiv(c * d, 127)
        /\ delta \in -127 .. 127
        /\ g = TruncDiv(delta, 8)
        /\ g \in -15 .. 15

Normalisation == [][NormStep]_vars

\* Sample 100 at depth -64: centred -412, rescaled -102, delta 51, of which
\* the gate length takes 6.
NormWitness ==
  /\ pc = "test" /\ cfg.in2 = NormConfig(-64).in2 /\ adc.in2 = 100
  /\ mapX = 179 /\ cfg.gateMs[0] = 26

\* C33 as stated: at full depth the smallest sample 0 gives -127 and the
\* largest sample 1023 gives +127.
FullRangeStep ==
  (Evaluated /\ IsNormConfig /\ cfg.in2.slot[0].depth = 127) =>
    /\ (adc.in2 = 0) => (mapX' - cfg.baseMapX = -127)
    /\ (adc.in2 = 1023) => (mapX' - cfg.baseMapX = 127)

FullRange == [][FullRangeStep]_vars

\* C33 as the code has it: the smallest sample 0 gives -127, the largest
\* sample 1023 gives +126, and no sample gives +127.
UpperShortStep ==
  (Evaluated /\ IsNormConfig /\ cfg.in2.slot[0].depth = 127) =>
    /\ (adc.in2 = 0) => (mapX' - cfg.baseMapX = -127)
    /\ (adc.in2 = 1023) => (mapX' - cfg.baseMapX = 126)
    /\ (mapX' - cfg.baseMapX) \in -127 .. 126

UpperShort == [][UpperShortStep]_vars

UpperShortWitness ==
  /\ pc = "test" /\ cfg.in2 = NormConfig(127).in2 /\ adc.in2 = 1023
  /\ mapX = 254 /\ cfg.gateMs[0] = 35

\* cfg is a block of TargetConfigs: one input on, with one route.
OnInput  == IF cfg.in2.enabled THEN cfg.in2 ELSE cfg.in3
OnRaw    == IF cfg.in2.enabled THEN adc.in2 ELSE adc.in3
OnRoutes == {j \in 0 .. 2 : OnInput.slot[j] # NoSlot}

IsTargetConfig ==
  /\ cfg.in2.enabled # cfg.in3.enabled
  /\ \E j \in 0 .. 2 :
       /\ OnRoutes = {j}
       /\ cfg = TargetConfig(IF cfg.in2.enabled THEN 2 ELSE 3, j,
                             OnInput.slot[j].target, OnInput.slot[j].depth)

\* C34: an evaluation with one active route of target t and delta
\* trunc(c*d/127) publishes every value but the one t names as its base:
\* position X (1), position Y (2), one density (3 .. 5), chaos (7) or one
\* gate length (8 .. 10, which takes trunc(delta/8)) takes the delta; target
\* 6 adds the delta to each of the three densities, clamped one by one; a
\* target id outside 1 .. 10 changes nothing.
TargetStep ==
  (Evaluated /\ IsTargetConfig) =>
    LET r     == OnInput.slot[CHOOSE j \in OnRoutes : TRUE]
        t     == r.target
        delta == TruncDiv(cvNormCentered(OnRaw) * r.depth, 127)
        to(k) == IF t = k THEN delta ELSE 0
    IN  /\ mapX' = Clip(cfg.baseMapX + to(TGT_MAP_X), 0, 255)
        /\ mapY' = Clip(cfg.baseMapY + to(TGT_MAP_Y), 0, 255)
        /\ \A i \in Chans :
             dens'[i] = Clip(cfg.baseDens[i] + to(TGT_DENS_BD + i) + to(TGT_GLOBAL_DENS),
                             0, 255)
        /\ chaos' = Clip(cfg.baseChaos + to(TGT_CHAOS), 0, 255)
        /\ \A i \in Chans :
             cfg'.gateMs[i] =
               Clip(cfg.gateMs[i] + (IF t = TGT_GATE_BD + i THEN TruncDiv(delta, 8) ELSE 0),
                    0, 50)

TargetDispatch == [][TargetStep]_vars

\* Target 6 at depth 127 with the sample at the top: 126 on each density,
\* two of which reach the clamp.
TargetWitness ==
  /\ pc = "test" /\ cfg.in3.enabled /\ ~cfg.in2.enabled /\ adc.in3 = 1023
  /\ cfg.in3.slot = OneRoute(2, TGT_GLOBAL_DENS, 127)
  /\ dens = [i \in Chans |-> IF i = 2 THEN 246 ELSE 255]
  /\ mapX = 128 /\ mapY = 128 /\ chaos = 16 /\ cfg.gateMs = GateBase

\* The cells xyToCell returns over all positions, for a table of n cells.
CellImage(n) == {xyToCell(n, x, y) : x \in Byte, y \in Byte}

\* The image depends on the table size alone; it is taken once for each
\* build, in the states at the far corner of the map.
AtCorner == pc = "inc" /\ mapX = 255 /\ mapY = 255 /\ stepCount = U32(0, 0)

\* C35 as stated: for every table size, every cell id in [0, NUM_CELLS) is
\* returned for at least one position.
GridCoversTable == AtCorner => CellImage(numCells) = 0 .. (numCells - 1)

\* C35 as the code has it: the cells returned are those of the W x H grid,
\* 0 .. W*H-1 with W = floor(sqrt(NUM_CELLS)) and H = max(1, NUM_CELLS / W):
\* every cell of the table when NUM_CELLS is a multiple of W, and otherwise
\* not the cells from W*H up.
GridCoversRect ==
  AtCorner =>
    LET W   == FloorSqrt(numCells)
        H   == Max(1, numCells \div W)
        img == CellImage(numCells)
    IN  /\ img = 0 .. (W * H - 1)
        /\ (numCells % W = 0) <=> (img = 0 .. (numCells - 1))

GridCoversWitness ==
  /\ AtCorner /\ numCells = 26
  /\ xyToCell(numCells, mapX, mapY) = 24

\* C36: the stored clock division is one of 1, 2, 4, 8 in every state
\* reached from the defaults through SET, SAVE and LOAD lines.
ClockDivPowerOfTwo == cfg.clockDiv \in {1, 2, 4, 8}

\* C37: firing is a function of the run's inputs: the generator starts from
\* the seed and is never set again; a pass of processStep over an unmuted
\* channel advances it by exactly one draw and fires the channel exactly
\* when the fire rule says so for the byte drawn and the table byte, density
\* and chaos of the state; a pass over a muted channel, and every other
\* step of the program, leaves the generator as it is and fires nothing.
ChannelPass == pc = "step" /\ (pc' # pc \/ ch' # ch)

DeterministicStep ==
  IF ChannelPass /\ ~Muted(cfg, ch)
    THEN /\ prng_s' = prngNext(prng_s)
         /\ FiredNow(ch) <=>
              FireDecision(readProb(table, numCells, xyToCell(numCells, mapX, mapY), ch,
                                    StepIndex(stepCount)),
                           dens[ch], prng_s' % 256, chaos)
         /\ \A i \in Chans \ {ch} : ~FiredNow(i)
    ELSE /\ prng_s' = prng_s
         /\ \A i \in Chans : ~FiredNow(i)

DeterministicFiring == [] ((nProcessed = 0) => (prng_s = SeedS)) /\ [][DeterministicStep]_vars

\* The first step with channel 0 muted: two draws from the seed.
DeterministicWitness ==
  /\ pc = "inc" /\ nProcessed = 1 /\ cfg.in2.enabled /\ drawn = {1, 2}
  /\ prng_s = prngNext(prngNext(SeedS))

\* Rising edges still to come before step-due is raised, if the stored
\* factor stays as it is.
EdgesLeft(c, d) == Max(1, Max(1, c.clockDiv) - d)

\* C38: in every state, step-due is raised within max(1, N) further rising
\* edges if the stored factor stays N: the edges left are at most max(1, N),
\* also right after SET or LOAD changed the factor in the middle of a count,
\* and every rising edge either raises step-due, when one edge was left, or
\* takes one edge off.
DividerStep ==
  (nRising' # nRising) =>
    IF EdgesLeft(cfg, divCount) = 1
      THEN nRaised' = nRaised + 1 /\ divCount' = 0
      ELSE nRaised' = nRaised /\ EdgesLeft(cfg', divCount') = EdgesLeft(cfg, divCount) - 1

DividerResponse ==
  /\ [] (divCount \in 0 .. 254 /\ EdgesLeft(cfg, divCount) \in 1 .. Max(1, cfg.clockDiv))
  /\ [][DividerStep]_vars

\* Two edges counted under factor 255 (LOAD of an erased EEPROM), then SET
\* clockDiv=2: the next edge raises step-due.
DividerWitness ==
  /\ cfg.clockDiv = 2 /\ nCmds = 2 /\ lastLine = SetLine("clockDiv", 2)
  /\ nRising = 3 /\ nRaised = 1 /\ divCount = 0 /\ nProcessed = 0

\* ---------------------------------------------------- the wrap specification
\* The whole program, observed from the top of a loop iteration one
\* millisecond before the microsecond counter wraps, all gates off.  The
\* history counters count from the start of the observation.
WrapStart == TimeMod - UnitsPerMs

InitWrap ==
  /\ cfg = Defaults
  /\ clockEdge = FALSE /\ stepCount = U32(0, 0) /\ divCount = 0
  /\ mapX = 128 /\ mapY = 128
  /\ dens = [i \in Chans |-> IF i = 0 THEN 160 ELSE IF i = 1 THEN 140 ELSE 120]
  /\ chaos = 16
  /\ gates = [i \in Chans |-> [offAt_us |-> 0, active |-> FALSE]]
  /\ pins = [i \in Chans |-> FALSE]
  /\ prng_s = SeedS
  /\ now = WrapStart /\ micros = WrapStart
  /\ pc = "cv" /\ ch = 0
  /\ InitHistory
  /\ eeprom = ErasedEeprom
  /\ pcint1_prev = 0
  /\ table \in Tables
  /\ numCells = 25

SpecWrap == InitWrap /\ [][Next]_vars

\* C39: across the wrap of the microsecond counter a gate is neither turned
\* off early nor left high: after every gate scan, the line of a channel
\* that was fired is high exactly when less than max(L,1) ms, counted modulo
\* the counter's range, have passed from its last fire to the scan's time
\* reading.
WrapExpiry ==
  (pc = "serial") =>
     \A i \in Chans :
        (lastFire[i].n > 0) => (pins[i] <=> (Elapsed(lastFire[i].at, now) < FiredFor(i)))

\* Fired before the wrap with 2 ms, scanned after the wrap and before the
\* off-time: still high.
WrapWitness ==
  /\ pc = "serial" /\ pins[0] /\ gates[0].active
  /\ lastFire[0].at = WrapStart /\ lastFire[0].len = 2
  /\ now = 0 /\ gates[0].offAt_us = UnitsPerMs


\* ----------------------------------------------- the generator specification
\* prng8() called directly, again and again, on the program as setup()
\* leaves it.  MaxDraws bounds the number of calls.
MaxDraws == 65535

\* The number of non-zero values of the uint16_t state.
PrngPeriod == 65535

\* prng8(): the state advances, the byte returned is not kept.
CallPrng8 ==
  /\ prngCalls < MaxDraws
  /\ prng_s' = prngNext(prng_s)
  /\ prngCalls' = prngCalls + 1
  /\ UNCHANGED <<cfg, eeprom, pcint1_prev, clockEdge, stepCount, divCount, mapX, mapY,
                 dens, chaos, gates, pins, micros, now, table, numCells, pc, ch>>
  /\ UNCHANGED <<histVars, adc, lastLine, reply, savedCfg, tableRead>>

NextPrng == CallPrng8

SpecPrng == Init /\ [][NextPrng]_vars

\* C40: from the seed 0xACE1 the state is never 0 after any number of calls,
\* and it is back at the seed after k calls exactly when k is a multiple of
\* 65535; the calls in between therefore pass through 65535 different
\* non-zero values, which are all of them.
PrngFullPeriod ==
  /\ prng_s \in 1 .. 65535
  /\ (prng_s = SeedS) <=> (prngCalls % PrngPeriod = 0)

\* The first return to the seed, after 65535 calls.
PrngFullPeriodWitness == prngCalls = PrngPeriod /\ prng_s = SeedS
====
